---- MODULE Spec2Model ----
(***************************************************************************)
(* ConsoleBrowser (Puppeteer variant): the accessibility snapshot, the     *)
(* uid index (snapshotIdToNode / nextUid), the visual scan and the         *)
(* resolution of a uid to a live element handle.                           *)
(*                                                                         *)
(* Text is a sequence of one-character strings, so that trim(), includes() *)
(* and length are computed and not assumed.  A page is the sequence of its *)
(* elements in document order; `depth` gives the nesting (element 1 is the *)
(* root <html>), and each element has at most one direct text node, `own`. *)
(***************************************************************************)
EXTENDS Integers, Sequences, FiniteSets, TLC

VARIABLES
    currentPage,        \* this.currentPage: 0 is null, otherwise a page id
    nextUid,            \* this.nextUid
    snapshotIdToNode,   \* this.snapshotIdToNode: uid number -> record
    lastSnapshot,       \* this.lastSnapshot: NoSnapshot, Sentinel or lines
    dom,                \* the live document of the current page: its elements in
                        \* document order, each an index into ElementTable
    result,             \* outcome of the last operation
    issuedNow,          \* history: uids issued by the current epoch, per namespace
    issuedBefore,       \* history: uids issued by superseded epochs
    heuristicLog,       \* history: what the heuristic selected for a uid on the
                        \* present page and index
    openTabs,           \* the browser's open tabs, in the order of browser.pages()
    created,            \* history: the number of tabs created so far (tab ids)
    pages,              \* this.pages
    loop,               \* the command loop: is the prompt pending, how many
                        \* executeCommand calls are in flight
    cmd,                \* the command in execution (or the last one finished)
    held,               \* element handles obtained from the resolver, not disposed
    pendingRefresh,     \* targetdestroyed callbacks that have not run yet
    fieldValue          \* el.value of the text field of the page

\* the state of the tabs, the command loop and the interaction driver
driverVars == <<openTabs, created, pages, loop, cmd, held, pendingRefresh, fieldValue>>

vars == <<currentPage, nextUid, snapshotIdToNode, lastSnapshot, dom, result,
          issuedNow, issuedBefore, heuristicLog,
          openTabs, created, pages, loop, cmd, held, pendingRefresh, fieldValue>>

----------------------------------------------------------------------------
(* Bounds of the model *)

MaxNodes == 3       \* nodes of an accessibility tree
MaxCand == 2        \* elements below <html> in a page of SpecResolve
MaxTabs == 3        \* tabs created in a run of SpecDrive

----------------------------------------------------------------------------
(* Text *)

\* the numeric suffixes a caller passes to resolve: one past any uid issued
MaxUidArg == MaxNodes + 1

Empty == <<>>

Digits == {"0", "1", "2", "3", "4", "5", "6", "7", "8", "9"}

MinOf(S) == CHOOSE x \in S : \A y \in S : x <= y

MaxOf(S) == CHOOSE x \in S : \A y \in S : y <= x

Abs(x) == IF x < 0 THEN -x ELSE x

\* String.prototype.trim
Trim(s) ==
    LET keep == {i \in 1..Len(s) : s[i] # " "}
    IN IF keep = {} THEN Empty ELSE SubSeq(s, MinOf(keep), MaxOf(keep))

\* String.prototype.includes
Includes(s, t) ==
    \E i \in 0..(Len(s) - Len(t)) : SubSeq(s, i + 1, i + Len(t)) = t

\* /^\d+$/.test(text)
IsNumeric(s) == Len(s) >= 1 /\ \A i \in 1..Len(s) : s[i] \in Digits

\* a || b on strings: the empty string is falsy
OrElse(a, b) == IF a # Empty THEN a ELSE b

\* String.prototype.toLowerCase on the tag names of the model
Lower(tag) ==
    CASE tag = "HTML" -> "html"
      [] tag = "BODY" -> "body"
      [] tag = "BUTTON" -> "button"
      [] tag = "A" -> "a"
      [] tag = "INPUT" -> "input"
      [] tag = "TEXTAREA" -> "textarea"
      [] tag = "DIV" -> "div"
      [] tag = "SPAN" -> "span"
      [] tag = "P" -> "p"
      [] tag = "LABEL" -> "label"
      [] tag = "H1" -> "h1"
      [] OTHER -> tag

----------------------------------------------------------------------------
(* The live document *)

\* An element with the attributes the engine reads.
El(tag, roleAttr, own, left, top, depth) ==
    [tag |-> tag, type |-> "", roleAttr |-> roleAttr, id |-> "", target |-> "",
     own |-> own, aria |-> Empty, placeholder |-> Empty, value |-> Empty,
     left |-> left, top |-> top, width |-> 80, height |-> 30,
     display |-> "block", visibility |-> "visible", depth |-> depth]

\* a text of n characters
LongText(n) == [i \in 1..n |-> "x"]

\* The elements pages are made of.  1 is <html>, 2 <body>; 3..8 make up the
\* pages of a session; 9..17 are the children of <html> in the pages the
\* heuristic match is checked on (Candidates); 18..27 are the elements of the
\* pages the visual scan is checked on (ScanCandidates): 20 nests in the element
\* before it, 20 and 21 carry the same id, 22..27 are what the scan leaves out
\* (no width, no height, hidden, 51 characters, digits only) or just keeps
\* (50 characters).
ElementTable ==
    <<El("HTML", "", Empty, 0, 0, 0),
      El("BODY", "", Empty, 0, 0, 1),
      El("BUTTON", "", <<"a">>, 0, 0, 2),
      [El("A", "", <<" ", "b">>, 0, 50, 2) EXCEPT !.target = "_blank"],
      El("DIV", "button", <<"a">>, 100, 50, 2),
      [El("INPUT", "", Empty, 40, 12, 2) EXCEPT !.type = "text", !.placeholder = <<"q">>],
      [El("SPAN", "", <<"7">>, 0, 0, 2) EXCEPT !.id = "n"],
      [El("DIV", "", <<"c">>, 0, 30, 2) EXCEPT !.display = "none"],
      El("BUTTON", "", <<"a">>, 50, 50, 1),
      El("BUTTON", "", <<"a">>, 100, 100, 1),
      El("BUTTON", "", <<"a", "b">>, 59, 41, 1),
      El("DIV", "button", <<" ", "a">>, 60, 50, 1),
      El("A", "", <<"b">>, 50, 50, 1),
      [El("INPUT", "", Empty, 100, 100, 1) EXCEPT !.type = "text", !.placeholder = <<"a">>],
      [El("DIV", "", Empty, 100, 100, 1) EXCEPT !.aria = <<"a", "b">>],
      El("DIV", "", <<"c">>, 100, 100, 1),
      El("SPAN", "", Empty, 100, 100, 1),
      El("BUTTON", "", <<"a">>, 50, 14, 1),
      El("A", "", <<"b">>, 10, 15, 1),
      [El("SPAN", "", <<"c">>, 0, 24, 2) EXCEPT !.id = "k"],
      [El("DIV", "", <<"d">>, 5, 4, 1) EXCEPT !.id = "k"],
      [El("DIV", "", <<"a">>, 0, 0, 1) EXCEPT !.width = 0],
      [El("H1", "", <<"a">>, 0, 0, 1) EXCEPT !.height = 0],
      [El("P", "", <<"a">>, 0, 0, 1) EXCEPT !.visibility = "hidden"],
      El("SPAN", "", LongText(51), 0, 0, 1),
      El("SPAN", "", LongText(50), 20, 0, 1),
      El("LABEL", "", <<"4", "2">>, 0, 0, 1)>>

Candidates == 9..17

ScanCandidates == {8} \cup 18..27

\* the document a sequence of table indices stands for
PageOf(ixs) == [i \in 1..Len(ixs) |-> ElementTable[ixs[i]]]

\* The elements of the subtree of element i (i included), in document order.
Subtree(d, i) ==
    {j \in i..Len(d) : \A k \in (i + 1)..j : d[k].depth > d[i].depth}

\* The parent of element i (0 for the root).
ParentOf(d, i) ==
    LET up == {j \in 1..(i - 1) : d[j].depth = d[i].depth - 1}
    IN IF up = {} THEN 0 ELSE MaxOf(up)

\* The children of element p (of the document itself when p = 0).
ChildrenOf(d, p) == {j \in 1..Len(d) : ParentOf(d, j) = p}

RECURSIVE ConcatOwn(_, _, _)
ConcatOwn(d, i, last) ==
    IF i > last THEN Empty ELSE d[i].own \o ConcatOwn(d, i + 1, last)

\* el.textContent: the text nodes of the subtree, concatenated.
TextContent(d, i) == ConcatOwn(d, i, MaxOf(Subtree(d, i)))

WellFormed(d) ==
    /\ Len(d) >= 1
    /\ d[1].depth = 0
    /\ \A i \in 2..Len(d) : d[i].depth >= 1 /\ d[i].depth <= d[i - 1].depth + 1

----------------------------------------------------------------------------
(* Scored heuristic match: the script getElementByUid evaluates in the page *)

RoleWeight == 10
ExactWeight == 20
ContainsWeight == 15
ContainedWeight == 10
GeomWeight == 30
BoxEpsilon == 10

NoBounds == [has |-> FALSE, x |-> 0, y |-> 0]

Box(x, y) == [has |-> TRUE, x |-> x, y |-> y]

\* el.getAttribute('role') || el.tagName.toLowerCase()
ElRole(el) == IF el.roleAttr # "" THEN el.roleAttr ELSE Lower(el.tag)

\* el.textContent?.trim() || aria-label || placeholder || ''
ElText(d, i) == OrElse(Trim(TextContent(d, i)), OrElse(d[i].aria, d[i].placeholder))

RoleScore(el, role) ==
    IF ElRole(el) = role THEN RoleWeight
    ELSE IF role = "link" /\ el.tag = "A" THEN RoleWeight
    ELSE IF role = "button" /\ (el.tag = "BUTTON" \/ el.roleAttr = "button") THEN RoleWeight
    ELSE IF role = "textbox" /\ (el.tag = "INPUT" \/ el.tag = "TEXTAREA") THEN RoleWeight
    ELSE 0

\* a variant with the two partial weights exchanged
TextScoreSwapped(elText, name) ==
    IF name # Empty /\ elText # Empty
    THEN IF elText = name THEN ExactWeight
         ELSE IF Includes(elText, name) THEN ContainedWeight
         ELSE IF Includes(name, elText) THEN ContainsWeight
         ELSE 0
    ELSE 0

TextScore(elText, name) ==
    IF name # Empty /\ elText # Empty
    THEN IF elText = name THEN ExactWeight
         ELSE IF Includes(elText, name) THEN ContainsWeight
         ELSE IF Includes(name, elText) THEN ContainedWeight
         ELSE 0
    ELSE 0

\* a variant whose geometry term weighs less than an exact text
GeomScoreLight(el, bounds) ==
    IF bounds.has /\ Abs(el.left - bounds.x) < BoxEpsilon
                  /\ Abs(el.top - bounds.y) < BoxEpsilon
    THEN ContainsWeight
    ELSE 0

GeomScore(el, bounds) ==
    IF bounds.has
    THEN LET xMatch == Abs(el.left - bounds.x) < BoxEpsilon
             yMatch == Abs(el.top - bounds.y) < BoxEpsilon
         IN IF xMatch /\ yMatch THEN GeomWeight ELSE 0
    ELSE 0

\* the score of one element of the loop
Score(d, i, rec) ==
    RoleScore(d[i], rec.role) + TextScore(ElText(d, i), rec.name)
        + GeomScore(d[i], rec.bounds)

\* a variant in which a later element of equal score replaces the best one
BetterOrEqual(score, bestScore) == score >= bestScore

\* if (score > bestScore)
Better(score, bestScore) == score > bestScore

RECURSIVE ScanAll(_, _, _, _)
\* for (const el of allElements) { ... }: best = [match, score]
ScanAll(d, rec, i, best) ==
    IF i > Len(d) THEN best
    ELSE LET score == Score(d, i, rec)
         IN ScanAll(d, rec, i + 1,
                    IF Better(score, best.score)
                    THEN [match |-> i, score |-> score]
                    ELSE best)

\* a variant whose choice among elements of the best score depends on whether
\* the heuristic ran before
BestMatchFlipping(d, rec) ==
    LET first == ScanAll(d, rec, 1, [match |-> 0, score |-> 0])
    IN IF heuristicLog.n # 0 /\ first.match # 0
       THEN MaxOf({i \in 1..Len(d) : Score(d, i, rec) = first.score})
       ELSE first.match

\* bestMatch of the page script: an element index, 0 for null
BestMatch(d, rec) == ScanAll(d, rec, 1, [match |-> 0, score |-> 0]).match

----------------------------------------------------------------------------
(* Flat visual scan: the script getElementsForOCR evaluates in the page    *)

MaxTextLen == 50

SameTagBefore(d, i) ==
    {j \in ChildrenOf(d, ParentOf(d, i)) : j < i /\ d[j].tag = d[i].tag}

RECURSIVE PathTo(_, _)
\* the while loop of getXPath: one step per ancestor, root first; a step
\* carries its position only when that is greater than 1 (idx 0: no predicate)
PathTo(d, i) ==
    IF i = 0 THEN <<>>
    ELSE LET index == 1 + Cardinality(SameTagBefore(d, i))
         IN Append(PathTo(d, ParentOf(d, i)),
                   [tag |-> Lower(d[i].tag),
                    idx |-> IF index > 1 THEN index ELSE 0])

\* getXPath(element)
GetXPath(d, i) ==
    IF d[i].id # ""
    THEN [kind |-> "id", id |-> d[i].id, steps |-> <<>>]
    ELSE [kind |-> "path", id |-> "", steps |-> PathTo(d, i)]

\* one location step tag or tag[idx], applied to a set of context nodes
StepFrom(d, ctx, step) ==
    {c \in 1..Len(d) :
        /\ ParentOf(d, c) \in ctx
        /\ Lower(d[c].tag) = step.tag
        /\ (step.idx = 0 \/ 1 + Cardinality(SameTagBefore(d, c)) = step.idx)}

RECURSIVE Walk(_, _, _)
Walk(d, ctx, steps) ==
    IF steps = <<>> THEN ctx ELSE Walk(d, StepFrom(d, ctx, Head(steps)), Tail(steps))

\* document.evaluate(xpath, document, null, FIRST_ORDERED_NODE_TYPE).singleNodeValue:
\* the first matching element in document order, 0 for null
EvalXPath(d, xp) ==
    LET hits == IF xp.kind = "id"
                THEN {j \in 1..Len(d) : d[j].id = xp.id}
                ELSE Walk(d, {0}, xp.steps)
    IN IF hits = {} THEN 0 ELSE MinOf(hits)

\* document.querySelectorAll(selectors.join(', ')) membership
Selected(el) ==
    \/ el.tag \in {"BUTTON", "A", "LABEL", "SPAN", "P", "H1", "DIV"}
    \/ el.tag = "INPUT" /\ el.type \in {"text", "search", "submit", "button"}
    \/ el.roleAttr \in {"button", "link", "heading", "text"}

\* getControlType(el)
GetControlType(el) ==
    IF el.tag = "BUTTON" THEN "button"
    ELSE IF el.tag = "A" THEN "link"
    ELSE IF el.tag = "INPUT"
         THEN IF el.type \in {"text", "search", "password", "email", "number"} THEN "textbox"
              ELSE IF el.type \in {"submit", "button", "reset"} THEN "button"
              ELSE IF el.type = "checkbox" THEN "checkbox"
              ELSE IF el.type = "radio" THEN "radio"
              ELSE "input"
    ELSE IF el.tag = "SELECT" THEN "combobox"
    ELSE IF el.tag = "TEXTAREA" THEN "textbox"
    ELSE IF el.tag = "LABEL" THEN "label"
    ELSE IF el.roleAttr # "" THEN el.roleAttr
    ELSE Lower(el.tag)

\* the text derived for an element of the scan
DerivedText(d, i) ==
    IF d[i].tag = "INPUT" THEN OrElse(d[i].placeholder, d[i].value)
    ELSE IF d[i].tag \in {"BUTTON", "A"} THEN Trim(TextContent(d, i))
    ELSE Trim(d[i].own)

\* a variant that does not look at the computed style
RetainedThoughHidden(d, i) ==
    /\ Selected(d[i])
    /\ ~(d[i].width = 0 \/ d[i].height = 0)
    /\ LET text == DerivedText(d, i)
       IN /\ ~(text = Empty \/ Len(text) < 1 \/ Len(text) > MaxTextLen)
          /\ ~IsNumeric(text)

\* the continue statements of the loop
Retained(d, i) ==
    /\ Selected(d[i])
    /\ ~(d[i].width = 0 \/ d[i].height = 0)
    /\ ~(d[i].display = "none" \/ d[i].visibility = "hidden")
    /\ LET text == DerivedText(d, i)
       IN /\ ~(text = Empty \/ Len(text) < 1 \/ Len(text) > MaxTextLen)
          /\ ~IsNumeric(text)

RECURSIVE Collect(_, _, _)
\* results.push({uid: `ocr_${results.length + 1}`, ...}) for each retained element
Collect(d, i, results) ==
    IF i > Len(d) THEN results
    ELSE Collect(d, i + 1,
                 IF Retained(d, i)
                 THEN Append(results,
                             [uid |-> Len(results) + 1, type |-> GetControlType(d[i]),
                              text |-> DerivedText(d, i), x |-> d[i].left, y |-> d[i].top,
                              width |-> d[i].width, height |-> d[i].height,
                              xpath |-> GetXPath(d, i),
                              el |-> i])    \* history: the element scanned
                 ELSE results)

\* a variant that rounds down
RowBucketFloor(y) == y \div 10

\* Math.round(y / 10)
RowBucket(y) == (y + 5) \div 10

\* the comparator of results.sort
Compare(a, b) ==
    LET yDiff == RowBucket(a.y) - RowBucket(b.y)
    IN IF yDiff # 0 THEN yDiff ELSE a.x - b.x

\* insert r after every element that does not sort after it (the sort is stable)
InsertSorted(sorted, r) ==
    LET after == {k \in 1..Len(sorted) : Compare(r, sorted[k]) < 0}
        at == IF after = {} THEN Len(sorted) + 1 ELSE MinOf(after)
    IN SubSeq(sorted, 1, at - 1) \o <<r>> \o SubSeq(sorted, at, Len(sorted))

RECURSIVE SortResults(_)
SortResults(rs) ==
    IF rs = <<>> THEN <<>>
    ELSE InsertSorted(SortResults(SubSeq(rs, 1, Len(rs) - 1)), rs[Len(rs)])

\* the list the page script returns
ScanPage(d) == SortResults(Collect(d, 1, <<>>))


----------------------------------------------------------------------------
(* Accessibility data handed over by the page driver *)

\* identifiers of the flat list: a string (AXNodeId), a number
\* (backendDOMNodeId) or undefined; a string never equals a number
StrId(n) == [t |-> "s", v |-> n]

NumId(n) == [t |-> "n", v |-> n]

NoId == [t |-> "u", v |-> 0]

Truthy(id) == id.t = "s" \/ (id.t = "n" /\ id.v # 0)

RECURSIVE AscSeq(_)
AscSeq(S) == IF S = {} THEN <<>> ELSE <<MinOf(S)>> \o AscSeq(S \ {MinOf(S)})

RECURSIVE DescSeq(_)
DescSeq(S) == IF S = {} THEN <<>> ELSE <<MaxOf(S)>> \o DescSeq(S \ {MaxOf(S)})

RECURSIVE Reaches(_, _, _)
\* following par from node i reaches the root 1 within k steps
Reaches(par, i, k) ==
    IF i = 1 THEN TRUE
    ELSE IF k = 0 THEN FALSE
    ELSE Reaches(par, par[i], k - 1)

\* the shapes of the trees of at most MaxNodes nodes: node 1 is the root, the
\* other nodes are numbered in no particular order, children are listed in
\* ascending or descending order of their numbers
Shapes ==
    UNION {
        {[n |-> n,
          kids |-> [i \in 1..n |->
                      LET c == {j \in 2..n : par[j] = i}
                      IN IF asc THEN AscSeq(c) ELSE DescSeq(c)]] :
            par \in {q \in [2..n -> 1..n] : \A i \in 2..n : Reaches(q, i, n)},
            asc \in BOOLEAN} :
        n \in 1..MaxNodes}

\* role, name and bounds the driver reports for a node
AxLabel(role, name, bounds) == [role |-> role, name |-> name, bounds |-> bounds]

NodeLabel(i) ==
    IF i = 1 THEN AxLabel("RootWebArea", Empty, NoBounds)
    ELSE IF i % 2 = 0 THEN AxLabel("button", <<"a">>, Box(0, 0))
    ELSE AxLabel("link", Empty, NoBounds)

\* page.accessibility.snapshot(): a nested tree (SerializedAXNode); `handle`
\* says whether its nodes carry elementHandle()
Nested(n, kids, label, handle) ==
    [kind |-> "nested", n |-> n, kids |-> kids, label |-> label, handle |-> handle,
     order |-> AscSeq(1..n), ids |-> "none", marked |-> TRUE, dangling |-> FALSE]

NestedInputs ==
    {Nested(sh.n, sh.kids, [i \in 1..sh.n |-> NodeLabel(i)], h) :
        sh \in Shapes, h \in BOOLEAN}

\* Accessibility.getFullAXTree: the flat list.  ids "cdp": nodeId and childIds
\* are strings and backendDOMNodeId a number, as the protocol sends them; ids
\* "backend": no nodeId, childIds refer to backendDOMNodeId.  `rev`: the list
\* is in descending order of node number; `marked`: the root has the role
\* RootWebArea; `dangling`: the root lists a child id that no node carries.
FlatStyles ==
    {[ids |-> "cdp", rev |-> FALSE, marked |-> TRUE, dangling |-> FALSE],
     [ids |-> "backend", rev |-> FALSE, marked |-> TRUE, dangling |-> FALSE],
     [ids |-> "backend", rev |-> TRUE, marked |-> TRUE, dangling |-> TRUE],
     [ids |-> "backend", rev |-> TRUE, marked |-> FALSE, dangling |-> FALSE]}

Flat(n, kids, label, st) ==
    [kind |-> "flat", n |-> n, kids |-> kids, label |-> label, handle |-> FALSE,
     order |-> IF st.rev THEN DescSeq(1..n) ELSE AscSeq(1..n),
     ids |-> st.ids, marked |-> st.marked, dangling |-> st.dangling]

FlatInputs ==
    {Flat(sh.n, sh.kids, [i \in 1..sh.n |-> NodeLabel(i)], st) :
        sh \in Shapes, st \in FlatStyles}

\* the fields of node i of a flat list
FlatNodeId(src, i) == IF src.ids = "cdp" THEN StrId(i) ELSE NoId

FlatBackendId(src, i) == NumId(i)

FlatRef(src, i) == IF src.ids = "cdp" THEN StrId(i) ELSE NumId(i)

FlatChildIds(src, i) ==
    [k \in 1..Len(src.kids[i]) |-> FlatRef(src, src.kids[i][k])]
        \o (IF src.dangling /\ i = 1 THEN <<FlatRef(src, src.n + 1)>> ELSE <<>>)

FlatRole(src, i) == IF i = 1 /\ ~src.marked THEN "WebArea" ELSE src.label[i].role

----------------------------------------------------------------------------
(* Building the snapshot: uids, index records and text lines *)

EmptyIndex == <<>>

\* Map.prototype.set
MapSet(index, uid, rec) == (uid :> rec) @@ index

\* the builder's working state: this.nextUid, this.snapshotIdToNode and the
\* text produced so far (one entry per line: indentation depth, uid, role, desc)
Builder(uid, index, text) == [nextUid |-> uid, index |-> index, text |-> text]

\* parts.join(' ') || node.role || 'unknown' (nodes carry no value, no description)
Desc(role, name) ==
    IF name # Empty THEN name ELSE IF role # "" THEN <<role>> ELSE <<"unknown">>

RoleOr(role) == IF role # "" THEN role ELSE "unknown"

\* a record of the index; parentUid is history (the uid given to the node the
\* builder came from, 0 for the root): the engine does not store it
NodeRecord(uid, role, label, backendNodeId, axNode, hasHandle, parentUid) ==
    [uid |-> uid, role |-> RoleOr(role), name |-> label.name, bounds |-> label.bounds,
     backendNodeId |-> backendNodeId, axNode |-> axNode, hasHandle |-> hasHandle,
     parentUid |-> parentUid]

Line(depth, uid, role, name) ==
    [depth |-> depth, uid |-> uid, role |-> RoleOr(role), desc |-> Desc(role, name)]

NestedRecord(src, node, uid, parentUid) ==
    NodeRecord(uid, src.label[node].role, src.label[node], NoId, node, src.handle, parentUid)

NestedLine(src, node, uid, depth) ==
    Line(depth, uid, src.label[node].role, src.label[node].name)

RECURSIVE FormatAccessibilityTree(_, _, _, _, _)
RECURSIVE FormatChildren(_, _, _, _, _)

\* a variant that increments this.nextUid only after the children are formatted
FormatAccessibilityTreeLateIncrement(src, node, depth, parentUid, st) ==
    LET uid == st.nextUid
        st1 == Builder(uid,
                       MapSet(st.index, uid, NestedRecord(src, node, uid, parentUid)),
                       Append(st.text, NestedLine(src, node, uid, depth)))
        done == FormatChildren(src, src.kids[node], depth + 1, uid, st1)
    IN Builder(done.nextUid + 1, done.index, done.text)

\* formatAccessibilityTree(node, depth)
FormatAccessibilityTree(src, node, depth, parentUid, st) ==
    LET uid == st.nextUid
        st1 == Builder(uid + 1,
                       MapSet(st.index, uid, NestedRecord(src, node, uid, parentUid)),
                       Append(st.text, NestedLine(src, node, uid, depth)))
    IN FormatChildren(src, src.kids[node], depth + 1, uid, st1)

\* for (const child of node.children) text += formatAccessibilityTree(child, depth + 1)
FormatChildren(src, kids, depth, parentUid, st) ==
    IF kids = <<>> THEN st
    ELSE FormatChildren(src, Tail(kids), depth, parentUid,
                        FormatAccessibilityTree(src, Head(kids), depth, parentUid, st))

\* const id = node.nodeId || node.backendDOMNodeId
FlatKey(src, i) ==
    IF Truthy(FlatNodeId(src, i)) THEN FlatNodeId(src, i) ELSE FlatBackendId(src, i)

\* nodeMap.get(id): the last listed node stored under id, 0 for undefined
NodeMapGet(src, id) ==
    LET at == {p \in 1..Len(src.order) :
                  Truthy(FlatKey(src, src.order[p])) /\ FlatKey(src, src.order[p]) = id}
    IN IF at = {} THEN 0 ELSE src.order[MaxOf(at)]

\* childrenMap.get(id): the child references stored under id, <<>> for undefined
ChildrenMapGet(src, id) ==
    LET at == {p \in 1..Len(src.order) :
                  /\ FlatKey(src, src.order[p]) = id
                  /\ Len(FlatChildIds(src, src.order[p])) > 0}
    IN IF at = {} THEN <<>> ELSE FlatChildIds(src, src.order[MaxOf(at)])

\* result.nodes.find(n => n.role?.value === 'RootWebArea') || result.nodes[0]
FlatRoot(src) ==
    LET at == {p \in 1..Len(src.order) : FlatRole(src, src.order[p]) = "RootWebArea"}
    IN IF at = {} THEN src.order[1] ELSE src.order[MinOf(at)]

FlatRecord(src, node, uid, parentUid) ==
    NodeRecord(uid, FlatRole(src, node), src.label[node], FlatBackendId(src, node),
               0, FALSE, parentUid)

RECURSIVE FormatAXNode(_, _, _, _, _)
RECURSIVE FormatAXChildren(_, _, _, _, _)

\* formatAXNode(node, nodeMap, childrenMap, depth)
FormatAXNode(src, node, depth, parentUid, st) ==
    LET uid == st.nextUid
        st1 == Builder(uid + 1,
                       MapSet(st.index, uid, FlatRecord(src, node, uid, parentUid)),
                       Append(st.text,
                              Line(depth, uid, FlatRole(src, node), src.label[node].name)))
    IN FormatAXChildren(src, ChildrenMapGet(src, FlatBackendId(src, node)),
                        depth + 1, uid, st1)

\* for (const childId of childIds) { const childNode = nodeMap.get(childId); ... }
FormatAXChildren(src, childIds, depth, parentUid, st) ==
    IF childIds = <<>> THEN st
    ELSE LET childNode == NodeMapGet(src, Head(childIds))
         IN FormatAXChildren(src, Tail(childIds), depth, parentUid,
                             IF childNode # 0
                             THEN FormatAXNode(src, childNode, depth, parentUid, st)
                             ELSE st)

----------------------------------------------------------------------------
(* State and operations of ConsoleBrowser *)

\* lastSnapshot: null, the marker text, or the lines of a formatted tree
NoSnapshot == [kind |-> "null", lines |-> <<>>]

Sentinel == [kind |-> "sentinel", lines |-> <<>>]

SnapshotText(lines) == [kind |-> "text", lines |-> lines]

\* tab: the page the uid_ epoch was captured against (0: none)
NoUids == [uid |-> {}, ocr |-> {}, tab |-> 0]

\* no heuristic resolution ran on the present page and index
NoLog == [n |-> 0, picks |-> {}, repeated |-> FALSE]

\* the log after the heuristic selected match for uid n
Logged(n, match) ==
    IF heuristicLog.n = n
    THEN [n |-> n, picks |-> heuristicLog.picks \cup {match}, repeated |-> TRUE]
    ELSE [n |-> n, picks |-> {match}, repeated |-> FALSE]

Outcome(op, ns, n, status, handle, via) ==
    [op |-> op, ns |-> ns, n |-> n, status |-> status, handle |-> handle, via |-> via,
     list |-> <<>>]                       \* the list a scan returned

\* pages the current tab shows in a session
BlankPage == <<1>>

PageA == <<1, 2, 3, 4, 5>>

PageB == <<1, 2, 6, 4, 7, 8>>

Pages == {BlankPage, PageA, PageB}

\* accessibility data the driver hands over in a session
ChainKids == << <<3>>, <<>>, <<2>> >>

SessionLabels == [i \in 1..3 |-> NodeLabel(i)]

SessionNested ==
    {Nested(1, << <<>> >>, [i \in 1..1 |-> NodeLabel(i)], FALSE),
     Nested(3, ChainKids, SessionLabels, TRUE),
     Nested(2, << <<2>>, <<>> >>, [i \in 1..2 |-> NodeLabel(i)], FALSE)}

SessionFlat ==
    {Flat(3, ChainKids, SessionLabels,
          [ids |-> "backend", rev |-> TRUE, marked |-> TRUE, dangling |-> TRUE]),
     Flat(3, ChainKids, SessionLabels,
          [ids |-> "cdp", rev |-> FALSE, marked |-> TRUE, dangling |-> FALSE])}

\* this.pages as refreshPages maps it from browser.pages(): ids are positions
PageList(tabs, cur) ==
    [i \in 1..Len(tabs) |-> [id |-> i, page |-> tabs[i], selected |-> tabs[i] = cur]]

\* refreshPages(): the new this.pages and this.currentPage, given the tabs
\* browser.pages() answers and the current page (0 is null)
RefreshPages(tabs, cur) ==
    LET listed == PageList(tabs, cur)
    IN IF Len(listed) > 0 /\ cur = 0
       THEN [pages |-> [listed EXCEPT ![1].selected = TRUE], currentPage |-> tabs[1]]
       ELSE [pages |-> listed, currentPage |-> cur]

\* recordingState: null, or the recording 'a s' started, commands being
\* recordingState.commands; typed is the history of the lines the operator
\* entered since that are neither view nor automation commands
NoRecording == [active |-> FALSE, name |-> "", commands |-> <<>>, typed |-> <<>>]

\* the command loop: prompt is a pending rl.question, running counts the
\* executeCommand calls in flight, recordingState is the module's variable
LoopState(prompt, running) ==
    [prompt |-> prompt, running |-> running, recordingState |-> NoRecording]

\* the loop with another prompt and count, the recording as it is
Continued(l, prompt, running) == [l EXCEPT !.prompt = prompt, !.running = running]

\* the longest recording followed
MaxRecorded == 3

\* skipCommands, by the operations of the model: a (a s, a e, a a <n>)
SkipCommands == {"auto", "record"}

\* a line of a recording; replayed tells executeAutoScript entered it
Entry(c, replayed) == [op |-> c.op, ns |-> c.ns, n |-> c.n, replayed |-> replayed]

\* trimmed.match(/^(t|fill|t)\s+(\S+)\s+(.+)$/i)
FillMatch(c) == c.op = "fill"

\* executeCommand from its first line to the switch: a fill is handled and
\* returns; any other line is pushed when a recording is active and the
\* command is not one of skipCommands
Recorded(rec, c, replayed) ==
    IF FillMatch(c)
    THEN rec
    ELSE IF rec.active /\ c.op \notin SkipCommands
         THEN [rec EXCEPT !.commands = Append(@, Entry(c, replayed))]
         ELSE rec

\* the history of the lines typed, beside the recording
Noted(rec, c) ==
    IF rec.active /\ c.op \notin SkipCommands
    THEN [rec EXCEPT !.typed = Append(@, Entry(c, FALSE))]
    ELSE rec

\* the loop after executeCommand took the line c of the operator
Taken(l, c) ==
    [l EXCEPT !.recordingState = Noted(Recorded(@, c, FALSE), c)]

\* the loop after executeCommand took the line c of a script
Replayed(l, c) == [l EXCEPT !.recordingState = Recorded(@, c, TRUE)]

\* the recording has room for k more lines
Room(l, k) ==
    /\ Len(l.recordingState.commands) + k <= MaxRecorded
    /\ Len(l.recordingState.typed) + k <= MaxRecorded

\* no command was entered yet
NoCommand ==
    [op |-> "none", pc |-> "done", ns |-> "", n |-> 0, handle |-> 0, status |-> "ok",
     trace |-> <<>>, isLink |-> FALSE, newTab |-> FALSE, opened |-> 0, tabsBefore |-> 0,
     curBefore |-> 0, page |-> 0, had |-> <<>>, script |-> <<>>, replay |-> FALSE,
     arg |-> <<>>]                        \* args[0] as typed, <<>> when absent

\* the record kept of a command that has completed
Ended(c, status) ==
    [NoCommand EXCEPT !.op = c.op, !.status = status, !.script = c.script,
                      !.replay = c.replay]

Init ==
    /\ currentPage = 0
    /\ nextUid = 1
    /\ snapshotIdToNode = EmptyIndex
    /\ lastSnapshot = NoSnapshot
    /\ dom = BlankPage
    /\ result = Outcome("new", "", 0, "ok", 0, "none")
    /\ issuedNow = NoUids
    /\ issuedBefore = NoUids
    /\ heuristicLog = NoLog
    /\ openTabs = <<>>
    /\ created = 0
    /\ pages = <<>>
    /\ loop = LoopState(FALSE, 0)
    /\ cmd = NoCommand
    /\ held = 0
    /\ pendingRefresh = 0
    /\ fieldValue = Empty

\* start(): the browser comes up with one tab, which refreshPages makes current;
\* the program then prompts for the first command
Start ==
    /\ currentPage = 0
    /\ created = 0
    /\ LET refreshed == RefreshPages(<<1>>, currentPage)
       IN /\ openTabs' = <<1>>
          /\ created' = 1
          /\ pages' = refreshed.pages
          /\ currentPage' = refreshed.currentPage
    /\ loop' = LoopState(TRUE, 0)
    /\ result' = Outcome("start", "", 0, "ok", 0, "none")
    /\ UNCHANGED <<nextUid, snapshotIdToNode, lastSnapshot, dom, issuedNow, issuedBefore,
                   heuristicLog, cmd, held, pendingRefresh, fieldValue>>

\* a variant in which a page that navigates takes the snapshot with it
PageChangeDroppingSnapshot ==
    /\ currentPage # 0
    /\ \E d \in Pages \ {dom} : dom' = d
    /\ result' = Outcome("page", "", 0, "ok", 0, "none")
    /\ heuristicLog' = NoLog
    /\ snapshotIdToNode' = EmptyIndex
    /\ nextUid' = 1
    /\ lastSnapshot' = NoSnapshot
    /\ UNCHANGED <<currentPage, issuedNow, issuedBefore>>

\* the page navigates, re-renders or scrolls between two commands
PageChange ==
    /\ currentPage # 0
    /\ \E d \in Pages \ {dom} : dom' = d
    /\ result' = Outcome("page", "", 0, "ok", 0, "none")
    /\ heuristicLog' = NoLog
    /\ UNCHANGED <<currentPage, nextUid, snapshotIdToNode, lastSnapshot,
                   issuedNow, issuedBefore>>

\* a variant that keeps the counter and the index
KeepUids(st) == st

\* this.nextUid = 1; this.snapshotIdToNode.clear()
ResetUids(st) == Builder(1, EmptyIndex, st.text)

\* a new epoch of the uid_ namespace, which issued the uids of the lines of text:
\* the uids of the epoch it supersedes are history
NewUidEpoch(text) ==
    /\ issuedBefore' = [issuedBefore EXCEPT !.uid = @ \cup issuedNow.uid]
    /\ issuedNow' = [issuedNow EXCEPT !.uid = {text[k].uid : k \in 1..Len(text)},
                                      !.tab = currentPage]

\* the engine after a takeSnapshot that built nothing
Unbuilt(st, status, via) ==
    /\ nextUid' = st.nextUid
    /\ snapshotIdToNode' = st.index
    /\ NewUidEpoch(<<>>)
    /\ heuristicLog' = NoLog
    /\ result' = Outcome("takeSnapshot", "", 0, status, 0, via)

\* the engine after a takeSnapshot that formatted a tree into st
Built(st, n, via) ==
    /\ nextUid' = st.nextUid
    /\ snapshotIdToNode' = st.index
    /\ lastSnapshot' = SnapshotText(st.text)
    /\ NewUidEpoch(st.text)
    /\ heuristicLog' = NoLog
    /\ result' = Outcome("takeSnapshot", "", n, "ok", 0, via)

\* takeSnapshot(), with takeSnapshotCDP() as its fallback; nested and flat are
\* the data the driver may hand over
TakeSnapshotFrom(nested, flat) ==
    \/ /\ currentPage = 0                     \* throw new Error('没有选中的页面')
       /\ result' = Outcome("takeSnapshot", "", 0, "NoPage", 0, "none")
       /\ UNCHANGED <<currentPage, nextUid, snapshotIdToNode, lastSnapshot, dom,
                      issuedNow, issuedBefore, heuristicLog>>
    \/ /\ currentPage # 0
       /\ LET st0 == ResetUids(Builder(nextUid, snapshotIdToNode, <<>>))
          IN \/ /\ Unbuilt(st0, "sentinel", "nested")  \* snapshot() returns null
                /\ lastSnapshot' = Sentinel
             \/ \E src \in nested :                    \* snapshot() returns a tree
                  Built(FormatAccessibilityTree(src, 1, 0, 0, st0), src.n, "nested")
             \/ /\ \E how \in {"throw", "errorText"} : \* it throws, and so does CDP
                     Unbuilt(st0, how, "cdp")
                /\ UNCHANGED lastSnapshot
             \/ /\ Unbuilt(ResetUids(st0), "sentinel", "cdp")
                /\ UNCHANGED lastSnapshot              \* it throws; CDP lists no node
             \/ \E src \in flat :                      \* it throws; CDP lists nodes
                  Built(FormatAXNode(src, FlatRoot(src), 0, 0, ResetUids(st0)),
                        src.n, "cdp")
       /\ UNCHANGED <<currentPage, dom>>

TakeSnapshot == TakeSnapshotFrom(SessionNested, SessionFlat)

\* the effect of getElementsForOCR() on the engine; list is what it returns
OcrEffect(list) ==
    IF currentPage = 0
    THEN UNCHANGED <<nextUid, snapshotIdToNode, issuedNow, issuedBefore, heuristicLog>>
    ELSE LET st == ResetUids(Builder(nextUid, snapshotIdToNode, <<>>))
         IN /\ nextUid' = st.nextUid
            /\ heuristicLog' = NoLog
            /\ snapshotIdToNode' = st.index
            /\ issuedBefore' = [issuedBefore EXCEPT !.ocr = @ \cup issuedNow.ocr]
            /\ issuedNow' = [issuedNow EXCEPT !.ocr = {list[k].uid : k \in 1..Len(list)}]

\* pages the visual scan is checked on: <html> with up to MaxCand elements of
\* the scan catalogue below it
ScanDoms ==
    {d \in UNION {{<<1>> \o s : s \in [1..k -> ScanCandidates]} : k \in 0..MaxCand} :
        WellFormed(PageOf(d))}

\* the page script's list for each page of a session and of the scan
\* catalogue, computed once
ScanOf == [d \in Pages \cup ScanDoms |-> ScanPage(PageOf(d))]

\* the list getElementsForOCR() returns
OcrList ==
    IF currentPage = 0 THEN <<>>
    ELSE IF dom \in DOMAIN ScanOf THEN ScanOf[dom] ELSE ScanPage(PageOf(dom))

\* getElementsForOCR()
GetElementsForOCR ==
    LET elements == OcrList
    IN /\ OcrEffect(elements)
       /\ result' = [Outcome("scan", "ocr", Len(elements), "ok", 0, "none")
                        EXCEPT !.list = elements]
       /\ UNCHANGED <<currentPage, lastSnapshot, dom>>

\* a variant that returns the null handle instead of throwing
HeuristicOutcomeNoThrow(n, match) ==
    Outcome("resolve", "uid", n, "ok", match, "heuristic")

\* handle.asElement() of the heuristic's result: null makes getElementByUid throw
HeuristicOutcome(n, match) ==
    IF match = 0
    THEN Outcome("resolve", "uid", n, "NotFound", 0, "heuristic")
    ELSE Outcome("resolve", "uid", n, "ok", match, "heuristic")

\* getElementByUid(`ocr_${n}`)
ResolveOcr(n) ==
    LET index == n - 1
        elements == OcrList
    IN /\ OcrEffect(elements)
       /\ IF index < 0 \/ index >= Len(elements)
          THEN /\ result' = Outcome("resolve", "ocr", n, "NotFound", 0, "none")
               /\ UNCHANGED dom
          ELSE \E later \in Pages \cup {dom} :    \* the page when the locator is evaluated
                 LET found == EvalXPath(PageOf(later), elements[index + 1].xpath)
                 IN /\ result' = Outcome("resolve", "ocr", n,
                                         IF found = 0 THEN "null" ELSE "ok", found, "xpath")
                    /\ dom' = later
       /\ UNCHANGED <<currentPage, lastSnapshot>>

\* getElementByUid(`uid_${n}`) when the index has no record of it
ResolveUnknown(n) ==
    /\ n \notin DOMAIN snapshotIdToNode
    /\ result' = Outcome("resolve", "uid", n, "NotFound", 0, "none")
    /\ UNCHANGED <<currentPage, nextUid, snapshotIdToNode, lastSnapshot, dom,
                   issuedNow, issuedBefore, heuristicLog>>

\* a variant that runs the page search before it asks the record's node for
\* its element
ResolveKnownSearchFirst(n) ==
    /\ n \in DOMAIN snapshotIdToNode
    /\ LET nodeInfo == snapshotIdToNode[n]
           direct == nodeInfo.axNode # 0 /\ nodeInfo.hasHandle
           match == BestMatch(PageOf(dom), nodeInfo)
       IN /\ heuristicLog' = Logged(n, match)
          /\ IF direct
             THEN \E e \in 1..Len(dom) :
                    result' = Outcome("resolve", "uid", n, "ok", e, "direct")
             ELSE result' = HeuristicOutcome(n, match)
    /\ UNCHANGED <<currentPage, nextUid, snapshotIdToNode, lastSnapshot, dom,
                   issuedNow, issuedBefore>>

\* getElementByUid(`uid_${n}`) when the index has a record of it
ResolveKnown(n) ==
    /\ n \in DOMAIN snapshotIdToNode
    /\ LET nodeInfo == snapshotIdToNode[n]
           direct == nodeInfo.axNode # 0 /\ nodeInfo.hasHandle
       IN \/ /\ direct                          \* elementHandle() yields an element
             /\ \E e \in 1..Len(dom) :
                  result' = Outcome("resolve", "uid", n, "ok", e, "direct")
             /\ UNCHANGED heuristicLog
          \/ LET match == BestMatch(PageOf(dom), nodeInfo)
             IN /\ result' = HeuristicOutcome(n, match)
                /\ heuristicLog' = Logged(n, match)
                                                \* it is absent, yields null or throws
    /\ UNCHANGED <<currentPage, nextUid, snapshotIdToNode, lastSnapshot, dom,
                   issuedNow, issuedBefore>>

GetElementByUid(ns, n) ==
    \/ ns = "ocr" /\ ResolveOcr(n)
    \/ ns = "uid" /\ ResolveUnknown(n)
    \/ ns = "uid" /\ ResolveKnown(n)

Next ==
    \/ Start
    \/ PageChange /\ UNCHANGED driverVars
    \/ TakeSnapshot /\ UNCHANGED driverVars
    \/ GetElementsForOCR /\ UNCHANGED driverVars
    \/ \E ns \in {"uid", "ocr"}, n \in 0..MaxUidArg :
         GetElementByUid(ns, n) /\ UNCHANGED driverVars

Spec == Init /\ [][Next]_vars

----------------------------------------------------------------------------
(* The builder on every tree of the bound *)

NextBuild ==
    \/ Start
    \/ TakeSnapshotFrom(NestedInputs, FlatInputs) /\ UNCHANGED driverVars
    \/ GetElementsForOCR /\ UNCHANGED driverVars

SpecBuild == Init /\ [][NextBuild]_vars

----------------------------------------------------------------------------
(* The resolver on one record and one page *)

ResolveLabels ==
    {AxLabel(role, name, bounds) :
        role \in {"button", "link", "textbox", "unknown"},
        name \in {Empty, <<"a">>, <<"a", "b">>},
        bounds \in {NoBounds, Box(50, 50)}}

ResolveDoms ==
    UNION {{<<1>> \o s : s \in [1..k -> Candidates]} : k \in 0..MaxCand}

\* after start() and a takeSnapshot() of a tree of one node
InitResolve ==
    \E lab \in ResolveLabels, h \in BOOLEAN, d \in ResolveDoms :
        LET st == FormatAccessibilityTree(Nested(1, << <<>> >>, <<lab>>, h), 1, 0, 0,
                                          Builder(1, EmptyIndex, <<>>))
        IN /\ currentPage = 1
           /\ nextUid = st.nextUid
           /\ snapshotIdToNode = st.index
           /\ lastSnapshot = SnapshotText(st.text)
           /\ dom = d
           /\ result = Outcome("takeSnapshot", "", 1, "ok", 0, "nested")
           /\ issuedNow = [uid |-> DOMAIN st.index, ocr |-> {}, tab |-> 1]
           /\ issuedBefore = NoUids
           /\ heuristicLog = NoLog
           /\ openTabs = <<1>>
           /\ created = 1
           /\ pages = RefreshPages(<<1>>, 0).pages
           /\ loop = LoopState(TRUE, 0)
           /\ cmd = NoCommand
           /\ held = 0
           /\ pendingRefresh = 0
           /\ fieldValue = Empty

NextResolve ==
    \E n \in 1..2 : (ResolveUnknown(n) \/ ResolveKnown(n)) /\ UNCHANGED driverVars

SpecResolve == InitResolve /\ [][NextResolve]_vars

----------------------------------------------------------------------------
(* The visual scan on every page of the scan catalogue *)

\* after start(), the current tab showing a page of the catalogue
InitScan ==
    /\ currentPage = 1
    /\ nextUid = 1
    /\ snapshotIdToNode = EmptyIndex
    /\ lastSnapshot = NoSnapshot
    /\ dom \in ScanDoms
    /\ result = Outcome("start", "", 0, "ok", 0, "none")
    /\ issuedNow = NoUids
    /\ issuedBefore = NoUids
    /\ heuristicLog = NoLog
    /\ openTabs = <<1>>
    /\ created = 1
    /\ pages = RefreshPages(<<1>>, 0).pages
    /\ loop = LoopState(TRUE, 0)
    /\ cmd = NoCommand
    /\ held = 0
    /\ pendingRefresh = 0
    /\ fieldValue = Empty

NextScan ==
    \/ GetElementsForOCR /\ UNCHANGED driverVars
    \/ \E n \in 1..MaxCand : ResolveOcr(n) /\ UNCHANGED driverVars

SpecScan == InitScan /\ [][NextScan]_vars

----------------------------------------------------------------------------
(* The command loop, the tabs and the interaction driver, step by step.    *)
(* A command is suspended at each driver round-trip (await); the steps of  *)
(* the targetdestroyed callback and of the browser interleave with it.     *)

\* the record tree and the page of a driven session: a text field and a link
\* that opens in a new tab
DriveLabels ==
    <<AxLabel("RootWebArea", Empty, NoBounds),
      AxLabel("textbox", <<"q">>, NoBounds),
      AxLabel("link", <<"b">>, NoBounds)>>

DriveNested == {Nested(3, << <<2, 3>>, <<>>, <<>> >>, DriveLabels, FALSE)}

\* the uids an operator passes: the text field, the link, a uid without a
\* record, and the first record of the visual scan
DriveUids == {<<"uid", 2>>, <<"uid", 3>>, <<"uid", MaxUidArg>>, <<"ocr", 1>>}

\* the text of a fill command
FillText == <<"h">>

\* a variant that takes a line whenever one is typed
AcceptingAlways(l) == TRUE

\* rl.question is pending
Accepting(l) == l.prompt

\* a command starts: executeCommand(input) up to its first await
Begin(op, pc, ns, n) ==
    [NoCommand EXCEPT !.op = op, !.pc = pc, !.ns = ns, !.n = n, !.status = "running",
                      !.tabsBefore = IF op = "click" THEN Len(openTabs) ELSE 0,
                      !.curBefore = IF op = "click" THEN currentPage ELSE 0,
                      !.had = IF op = "fill" THEN fieldValue ELSE <<>>]

\* the loop when a command that acts on the browser starts
Entered(l) == Continued(l, FALSE, l.running + 1)

\* a variant in which the prompt does not return after a command
FinishWithoutPrompt(c, status) ==
    /\ cmd' = [Ended(c, status) EXCEPT !.pc = IF c.replay THEN "next" ELSE "done"]
    /\ loop' = Continued(loop, FALSE, loop.running - 1)

\* startPrompt's callback: await executeCommand(input), report, startPrompt();
\* inside executeAutoScript the next command of the script follows instead
Finish(c, status) ==
    /\ cmd' = [Ended(c, status) EXCEPT !.pc = IF c.replay THEN "next" ELSE "done"]
    /\ loop' = Continued(loop, ~c.replay, loop.running - 1)

\* trace of the driver calls a command made on the element
Did(c, what) == [c EXCEPT !.trace = Append(@, what)]

\* a tab removed from the browser's list
Without(tabs, t) == SelectSeq(tabs, LAMBDA x : x # t)

IsOpen(t) == \E i \in 1..Len(openTabs) : openTabs[i] = t

\* p => p.id === pageId, on this.pages: the page of the entry, 0 for undefined
FindPage(list, pageId) ==
    LET at == {i \in 1..Len(list) : list[i].id = pageId}
    IN IF at = {} THEN 0 ELSE list[MinOf(at)].page

engineVars ==
    <<nextUid, snapshotIdToNode, lastSnapshot, dom, result, issuedNow, issuedBefore,
      heuristicLog>>

\* a line typed at the prompt that starts one of the step-wise commands
Enter(c) ==
    /\ Accepting(loop) /\ Room(loop, 1)
    /\ cmd' = c
    /\ loop' = Taken(Entered(loop), c)
    /\ UNCHANGED <<currentPage, engineVars, openTabs, created, pages, held,
                   pendingRefresh, fieldValue>>

\* a line that is no command: reported, and the prompt returns
UnknownCommand ==
    /\ Accepting(loop) /\ Room(loop, 1)
    /\ cmd' = [NoCommand EXCEPT !.op = "unknown", !.status = "UnknownCommand"]
    /\ loop' = Taken(Continued(loop, TRUE, loop.running), cmd')
    /\ UNCHANGED <<currentPage, engineVars, openTabs, created, pages, held,
                   pendingRefresh, fieldValue>>

\* exit: shutdown() closes the browser and ends the process
Exit ==
    /\ Accepting(loop) /\ Room(loop, 1)
    /\ cmd' = [NoCommand EXCEPT !.op = "exit"]
    /\ loop' = Taken(Continued(loop, FALSE, loop.running), cmd')
    /\ currentPage' = 0
    /\ pages' = <<>>
    /\ openTabs' = <<>>
    /\ UNCHANGED <<engineVars, created, held, pendingRefresh, fieldValue>>

\* o <url>
EnterOpen == created < MaxTabs /\ Enter(Begin("openPage", "newPage", "", 0))

\* browser.newPage()
OpenNewPage ==
    /\ cmd.op = "openPage" /\ cmd.pc = "newPage"
    /\ created < MaxTabs
    /\ openTabs' = Append(openTabs, created + 1)
    /\ created' = created + 1
    /\ cmd' = [cmd EXCEPT !.pc = "goto", !.opened = created + 1]
    /\ UNCHANGED <<currentPage, engineVars, pages, loop, held, pendingRefresh, fieldValue>>

\* page.goto(fullUrl): it loads, or it fails or times out and openPage throws
OpenGoto ==
    /\ cmd.op = "openPage" /\ cmd.pc = "goto"
    /\ \/ cmd' = [cmd EXCEPT !.pc = "refresh"] /\ UNCHANGED loop
       \/ Finish(cmd, "DriverFailure")
    /\ UNCHANGED <<currentPage, engineVars, openTabs, created, pages, held,
                   pendingRefresh, fieldValue>>

\* await this.refreshPages(); this.currentPage = page
OpenRefresh ==
    /\ cmd.op = "openPage" /\ cmd.pc = "refresh"
    /\ pages' = RefreshPages(openTabs, currentPage).pages
    /\ currentPage' = cmd.opened
    /\ Finish(cmd, "ok")
    /\ UNCHANGED <<engineVars, openTabs, created, held, pendingRefresh, fieldValue>>

\* the number a digit stands for
DigitValue(c) == CHOOSE k \in 0..9 : <<"0", "1", "2", "3", "4", "5", "6", "7", "8", "9">>[k + 1] = c

RECURSIVE DigitsValue(_, _)
\* the number the digits of s stand for, after acc
DigitsValue(s, acc) ==
    IF s = <<>> THEN acc ELSE DigitsValue(Tail(s), 10 * acc + DigitValue(Head(s)))

\* NaN
NaNId == [t |-> "nan", v |-> 0]

\* parseInt(text): the digits text starts with, NaN when it starts with none
ParseInt(text) ==
    LET stops == {i \in 1..Len(text) : text[i] \notin Digits}
        len == IF stops = {} THEN Len(text) ELSE MinOf(stops) - 1
    IN IF len = 0 THEN NaNId ELSE NumId(DigitsValue(SubSeq(text, 1, len), 0))

\* handleClose: const pageId = args[0] ? parseInt(args[0]) : undefined
HandleClosePageId(arg) == IF arg # <<>> THEN ParseInt(arg) ELSE NoId

\* what can follow q at the prompt: nothing, 0, a word, the number of a tab
CloseArgs ==
    {<<>>, <<"0">>, <<"x">>} \cup
    {<<c>> : c \in {d \in Digits : DigitValue(d) \in 1..MaxTabs}}

\* q [id]: closePage(pageId); the command's n is pageId when it is truthy
\* and 0 when it is undefined, 0 or NaN, which closePage does not tell apart
EnterClose ==
    \E arg \in CloseArgs :
        LET pageId == HandleClosePageId(arg)
        IN Enter([Begin("closePage", "refresh", "", IF Truthy(pageId) THEN pageId.v ELSE 0)
                     EXCEPT !.arg = arg])

\* closePage up to its second await: refreshPages, the target, the last tab
CloseRefresh ==
    /\ cmd.op = "closePage" /\ cmd.pc = "refresh"
    /\ LET refreshed == RefreshPages(openTabs, currentPage)
           targetPage == IF cmd.n # 0 THEN FindPage(refreshed.pages, cmd.n)
                         ELSE refreshed.currentPage
       IN /\ pages' = refreshed.pages
          /\ currentPage' = refreshed.currentPage
          /\ IF Len(refreshed.pages) = 0 THEN Finish(cmd, "ok")
             ELSE IF targetPage = 0 THEN Finish(cmd, "NotFound")
             ELSE /\ cmd' = [cmd EXCEPT !.page = targetPage,
                                        !.pc = IF Len(refreshed.pages) = 1 THEN "reset"
                                               ELSE "close"]
                  /\ UNCHANGED loop
    /\ UNCHANGED <<engineVars, openTabs, created, held, pendingRefresh, fieldValue>>

\* targetPage.goto('about:blank') on the last tab
CloseReset ==
    /\ cmd.op = "closePage" /\ cmd.pc = "reset"
    /\ Finish(cmd, IF IsOpen(cmd.page) THEN "ok" ELSE "DriverFailure")
    /\ UNCHANGED <<currentPage, engineVars, openTabs, created, pages, held,
                   pendingRefresh, fieldValue>>

\* targetPage.close(): the tab goes and the browser emits targetdestroyed
CloseTarget ==
    /\ cmd.op = "closePage" /\ cmd.pc = "close"
    /\ IF IsOpen(cmd.page)
       THEN /\ openTabs' = Without(openTabs, cmd.page)
            /\ pendingRefresh' = pendingRefresh + 1
            /\ cmd' = [cmd EXCEPT !.pc = "refreshed"]
            /\ UNCHANGED loop
       ELSE /\ Finish(cmd, "DriverFailure")
            /\ UNCHANGED <<openTabs, pendingRefresh>>
    /\ UNCHANGED <<currentPage, engineVars, created, pages, held, fieldValue>>

\* await this.refreshPages(); if the target was current, the first tab is
CloseRefreshed ==
    /\ cmd.op = "closePage" /\ cmd.pc = "refreshed"
    /\ LET refreshed == RefreshPages(openTabs, currentPage)
       IN /\ pages' = refreshed.pages
          /\ currentPage' = IF cmd.page = refreshed.currentPage /\ Len(refreshed.pages) > 0
                            THEN refreshed.pages[1].page
                            ELSE refreshed.currentPage
    /\ Finish(cmd, "ok")
    /\ UNCHANGED <<engineVars, openTabs, created, held, pendingRefresh, fieldValue>>

\* w <id>: switchPage up to its await
EnterSwitch ==
    \E pageId \in 1..MaxTabs :
        /\ Accepting(loop) /\ Room(loop, 1)
        /\ LET page == FindPage(pages, pageId)
           IN IF page = 0
              THEN /\ cmd' = Ended(Begin("switchPage", "done", "", pageId), "NotFound")
                   /\ loop' = Taken(Continued(loop, TRUE, loop.running), cmd')
                   /\ UNCHANGED currentPage
              ELSE /\ cmd' = Begin("switchPage", "refresh", "", pageId)
                   /\ loop' = Taken(Entered(loop), cmd')
                   /\ currentPage' = page
        /\ UNCHANGED <<engineVars, openTabs, created, pages, held, pendingRefresh,
                       fieldValue>>

\* the refreshPages that ends switchPage and navigate
EndRefresh ==
    /\ cmd.op \in {"switchPage", "navigate"} /\ cmd.pc = "refresh"
    /\ pages' = RefreshPages(openTabs, currentPage).pages
    /\ currentPage' = RefreshPages(openTabs, currentPage).currentPage
    /\ Finish(cmd, "ok")
    /\ UNCHANGED <<engineVars, openTabs, created, held, pendingRefresh, fieldValue>>

\* n <url>: navigate up to its await
EnterNavigate ==
    /\ Accepting(loop) /\ Room(loop, 1)
    /\ IF currentPage = 0
       THEN /\ cmd' = Ended(Begin("navigate", "done", "", 0), "NoPage")
            /\ loop' = Taken(Continued(loop, TRUE, loop.running), cmd')
       ELSE /\ cmd' = Begin("navigate", "goto", "", 0)
            /\ loop' = Taken(Entered(loop), cmd')
    /\ UNCHANGED <<currentPage, engineVars, openTabs, created, pages, held,
                   pendingRefresh, fieldValue>>

\* this.currentPage.goto(fullUrl): the tab shows another document, or goto
\* fails or times out and navigate throws
NavigateGoto ==
    /\ cmd.op = "navigate" /\ cmd.pc = "goto"
    /\ \/ /\ IsOpen(currentPage)
          /\ PageChange
          /\ cmd' = [cmd EXCEPT !.pc = "refresh"]
          /\ UNCHANGED loop
       \/ /\ Finish(cmd, "DriverFailure")
          /\ UNCHANGED <<currentPage, engineVars>>
    /\ UNCHANGED <<openTabs, created, pages, held, pendingRefresh, fieldValue>>

\* a tab goes without closePage: window.close(), a crash, the user
TabDestroyed ==
    \E i \in 1..Len(openTabs) :
        /\ cmd.op # "exit"
        /\ openTabs' = Without(openTabs, openTabs[i])
        /\ pendingRefresh' = pendingRefresh + 1
        /\ UNCHANGED <<currentPage, engineVars, created, pages, loop, cmd, held, fieldValue>>

\* browser.on('targetdestroyed', async () => { await this.refreshPages() })
HandlerRefresh ==
    /\ pendingRefresh > 0
    /\ cmd.op # "exit"
    /\ pendingRefresh' = pendingRefresh - 1
    /\ pages' = RefreshPages(openTabs, currentPage).pages
    /\ currentPage' = RefreshPages(openTabs, currentPage).currentPage
    /\ UNCHANGED <<engineVars, openTabs, created, loop, cmd, held, fieldValue>>

\* c <uid>, t <uid> <text>, hover <uid>
EnterInteraction ==
    \E op \in {"click", "fill", "hover"}, u \in DriveUids :
        Enter(Begin(op, "resolve", u[1], u[2]))

\* c <uid> on the link
EnterClickLink == Enter(Begin("click", "resolve", "uid", 3))

\* const handle = await this.getElementByUid(uid), and what the command does
\* with the answer: a throw ends it; an element is held; null makes
\* handle.evaluate / handle.hover and then handle.dispose() in finally throw
Resolve ==
    /\ cmd.op \in {"click", "fill", "hover"} /\ cmd.pc = "resolve"
    /\ GetElementByUid(cmd.ns, cmd.n)
    /\ CASE result'.status = "ok" ->
              /\ held' = held + 1
              /\ cmd' = [cmd EXCEPT !.handle = result'.handle,
                                    !.pc = CASE cmd.op = "click" -> "scroll"
                                             [] cmd.op = "fill" -> "clear"
                                             [] OTHER -> "hover"]
              /\ UNCHANGED loop
         [] result'.status = "null" ->
              /\ Finish(cmd, "TypeError")
              /\ UNCHANGED held
         [] OTHER ->
              /\ Finish(cmd, "NotFound")
              /\ UNCHANGED held
    /\ UNCHANGED <<openTabs, created, pages, pendingRefresh, fieldValue>>

\* what a step of a command leaves alone when it acts on the element only
ElementStepFrame ==
    UNCHANGED <<currentPage, engineVars, openTabs, created, pages, held, pendingRefresh,
                fieldValue, loop>>

\* a driver call on the handle throws inside try: finally disposes the handle
Throws(c) == [c EXCEPT !.pc = "dispose", !.status = "DriverFailure"]

\* handle.evaluate(el => el.scrollIntoView(...))
ClickScroll ==
    /\ cmd.op = "click" /\ cmd.pc = "scroll"
    /\ \/ cmd' = [Did(cmd, "scroll") EXCEPT !.pc = "settle"]
       \/ cmd' = Throws(cmd)
    /\ ElementStepFrame

\* await new Promise(resolve => setTimeout(resolve, 100))
ClickSettle ==
    /\ cmd.op = "click" /\ cmd.pc = "settle"
    /\ cmd' = [Did(cmd, "settle") EXCEPT !.pc = "inspect"]
    /\ ElementStepFrame

\* isLink, target, isOpenInNewTab
ClickInspect ==
    /\ cmd.op = "click" /\ cmd.pc = "inspect"
    /\ \/ cmd' = [cmd EXCEPT !.pc = "script",
                             !.isLink = PageOf(dom)[cmd.handle].tag = "A",
                             !.newTab = PageOf(dom)[cmd.handle].target = "_blank"]
       \/ cmd' = Throws(cmd)
    /\ ElementStepFrame

\* a click strategy succeeded on the element: a link with target _blank may
\* have opened a tab by the time click looks
Clicked(c) ==
    \/ /\ cmd' = [c EXCEPT !.pc = "after"]
       /\ UNCHANGED <<openTabs, created>>
    \/ /\ cmd.isLink /\ cmd.newTab /\ created < MaxTabs
       /\ openTabs' = Append(openTabs, created + 1)
       /\ created' = created + 1
       /\ cmd' = [c EXCEPT !.pc = "after", !.opened = created + 1]

\* the frame of a step that tries a click strategy
StrategyFrame ==
    UNCHANGED <<currentPage, engineVars, pages, held, pendingRefresh, fieldValue, loop>>

\* a variant that goes from the script click straight to the pointer click
AfterFailureSkipsNative(strategy) == "box"

\* catch (e1) { strategy 2 } catch (e2) { strategy 3 }: where click goes on
\* when a strategy has thrown
AfterFailure(strategy) == IF strategy = "script" THEN "native" ELSE "box"

\* strategy 1: handle.evaluate(el => el.click())
ClickScript ==
    /\ cmd.op = "click" /\ cmd.pc = "script"
    /\ \/ Clicked(Did(cmd, "script"))
       \/ /\ cmd' = [Did(cmd, "script") EXCEPT !.pc = AfterFailure("script")]
          /\ UNCHANGED <<openTabs, created>>
    /\ StrategyFrame

\* strategy 2: handle.click()
ClickNative ==
    /\ cmd.op = "click" /\ cmd.pc = "native"
    /\ \/ Clicked(Did(cmd, "native"))
       \/ /\ cmd' = [Did(cmd, "native") EXCEPT !.pc = AfterFailure("native")]
          /\ UNCHANGED <<openTabs, created>>
    /\ StrategyFrame

\* handle.boundingBox(): a box, or null and the error of strategy 2 is thrown
ClickBox ==
    /\ cmd.op = "click" /\ cmd.pc = "box"
    /\ \/ cmd' = [cmd EXCEPT !.pc = "mouse"]
       \/ cmd' = Throws(Did(cmd, "nobox"))
    /\ ElementStepFrame

\* strategy 3: this.currentPage.mouse.click(centre of the box)
ClickMouse ==
    /\ cmd.op = "click" /\ cmd.pc = "mouse"
    /\ \/ Clicked(Did(cmd, "mouse"))
       \/ /\ cmd' = Throws(Did(cmd, "mouse"))
          /\ UNCHANGED <<openTabs, created>>
    /\ StrategyFrame

\* if (isLink && isOpenInNewTab) wait 500 ms
ClickAfter ==
    /\ cmd.op = "click" /\ cmd.pc = "after"
    /\ cmd' = [cmd EXCEPT !.status = "ok",
                          !.pc = IF cmd.isLink /\ cmd.newTab THEN "refresh" ELSE "dispose"]
    /\ ElementStepFrame

\* a variant that makes the tab current only if this click opened it
NewestTabIfOpened(list, cur) == IF cmd.opened # 0 THEN cmd.opened ELSE cur

\* the tab click makes current after a click on a link with target _blank
NewestTab(list, cur) == IF Len(list) > 1 THEN list[Len(list)].page ELSE cur

\* await this.refreshPages(); if (this.pages.length > 1) the last page is current
ClickRefresh ==
    /\ cmd.op = "click" /\ cmd.pc = "refresh"
    /\ LET refreshed == RefreshPages(openTabs, currentPage)
       IN /\ pages' = refreshed.pages
          /\ currentPage' = NewestTab(refreshed.pages, refreshed.currentPage)
    /\ cmd' = [cmd EXCEPT !.pc = "dispose"]
    /\ UNCHANGED <<engineVars, openTabs, created, held, pendingRefresh, fieldValue, loop>>

\* the element a handle refers to is a text field
IsTextField(h) == PageOf(dom)[h].tag \in {"INPUT", "TEXTAREA"}

\* a variant that leaves the value
NotCleared(h, value) == value

\* el.value = '' (with the input and change events) on INPUT and TEXTAREA
Cleared(h, value) == IF IsTextField(h) THEN Empty ELSE value

\* handle.type(text): the keys go to the end of the value of a text field
Typed(h, value, text) == IF IsTextField(h) THEN value \o text ELSE value

\* fill: handle.evaluate(el => { el.value = ''; ... })
FillClear ==
    /\ cmd.op = "fill" /\ cmd.pc = "clear"
    /\ \/ /\ cmd' = [Did(cmd, "clear") EXCEPT !.pc = "pause"]
          /\ fieldValue' = Cleared(cmd.handle, fieldValue)
       \/ /\ cmd' = Throws(cmd)
          /\ UNCHANGED fieldValue
    /\ UNCHANGED <<currentPage, engineVars, openTabs, created, pages, held,
                   pendingRefresh, loop>>

\* await new Promise(resolve => setTimeout(resolve, 50))
FillPause ==
    /\ cmd.op = "fill" /\ cmd.pc = "pause"
    /\ cmd' = [Did(cmd, "settle") EXCEPT !.pc = "type"]
    /\ ElementStepFrame

\* await handle.type(text, { delay: 10 })
FillType ==
    /\ cmd.op = "fill" /\ cmd.pc = "type"
    /\ \/ /\ cmd' = [Did(cmd, "type") EXCEPT !.pc = "dispose", !.status = "ok"]
          /\ fieldValue' = Typed(cmd.handle, fieldValue, FillText)
       \/ /\ cmd' = Throws(Did(cmd, "type"))
          /\ UNCHANGED fieldValue
    /\ UNCHANGED <<currentPage, engineVars, openTabs, created, pages, held,
                   pendingRefresh, loop>>

\* hover: await handle.hover()
Hover ==
    /\ cmd.op = "hover" /\ cmd.pc = "hover"
    /\ \/ cmd' = [Did(cmd, "hover") EXCEPT !.pc = "dispose", !.status = "ok"]
       \/ cmd' = Throws(Did(cmd, "hover"))
    /\ ElementStepFrame

\* a variant without the finally block
NotDisposed(n) == n

\* the handles held after finally { await handle.dispose() }
Disposed(n) == n - 1

\* finally { await handle.dispose() }, and the command returns or rethrows
Dispose ==
    /\ cmd.op \in {"click", "fill", "hover"} /\ cmd.pc = "dispose"
    /\ held' = Disposed(held)
    /\ Finish(cmd, cmd.status)
    /\ UNCHANGED <<currentPage, engineVars, openTabs, created, pages, pendingRefresh,
                   fieldValue>>

\* the commands of a saved script, as executeAutoScript replays them
DriveScripts ==
    {<<[op |-> "hover", ns |-> "uid", n |-> 3], [op |-> "fill", ns |-> "uid", n |-> 2]>>}

\* a a <n>: executeAutoScript(commands) starts
EnterAuto ==
    /\ Accepting(loop)
    /\ \E script \in DriveScripts :
         /\ Room(loop, Len(script))
         /\ cmd' = [NoCommand EXCEPT !.op = "auto", !.pc = "next", !.status = "running",
                                     !.script = script]
    /\ loop' = Continued(loop, FALSE, loop.running)
    /\ UNCHANGED <<currentPage, engineVars, openTabs, created, pages, held,
                   pendingRefresh, fieldValue>>

\* for (...) { await executeCommand(cmd.raw); wait 1 s }: the next command of
\* the script starts when the one before has completed; after the last one
\* the prompt returns
AutoNext ==
    /\ cmd.pc = "next"
    /\ IF cmd.script = <<>>
       THEN /\ cmd' = [Ended(cmd, cmd.status) EXCEPT !.replay = FALSE]
            /\ loop' = Continued(loop, TRUE, loop.running)
       ELSE LET c == Head(cmd.script)
            IN /\ cmd' = [Begin(c.op, "resolve", c.ns, c.n) EXCEPT
                             !.script = Tail(cmd.script), !.replay = TRUE]
               /\ loop' = Replayed(Entered(loop), c)
    /\ UNCHANGED <<currentPage, engineVars, openTabs, created, pages, held,
                   pendingRefresh, fieldValue>>

\* a step of a tab command
TabStep ==
    \/ OpenNewPage \/ OpenGoto \/ OpenRefresh
    \/ CloseRefresh \/ CloseReset \/ CloseTarget \/ CloseRefreshed
    \/ EndRefresh \/ NavigateGoto

\* a step of click
ClickStep ==
    \/ ClickScroll \/ ClickSettle \/ ClickInspect
    \/ ClickScript \/ ClickNative \/ ClickBox \/ ClickMouse
    \/ ClickAfter \/ ClickRefresh

\* a step of the interaction command in execution
InteractionStep ==
    \/ Resolve
    \/ ClickStep
    \/ FillClear \/ FillPause \/ FillType
    \/ Hover
    \/ Dispose

\* after start() and a takeSnapshot() of the page with the text field and the link
InitDrive ==
    LET src == CHOOSE x \in DriveNested : TRUE
        st == FormatAccessibilityTree(src, 1, 0, 0, Builder(1, EmptyIndex, <<>>))
    IN /\ currentPage = 1
       /\ nextUid = st.nextUid
       /\ snapshotIdToNode = st.index
       /\ lastSnapshot = SnapshotText(st.text)
       /\ dom = PageB
       /\ result = Outcome("takeSnapshot", "", src.n, "ok", 0, "nested")
       /\ issuedNow = [uid |-> DOMAIN st.index, ocr |-> {}, tab |-> 1]
       /\ issuedBefore = NoUids
       /\ heuristicLog = NoLog
       /\ openTabs = <<1>>
       /\ created = 1
       /\ pages = RefreshPages(<<1>>, 0).pages
       /\ loop = LoopState(TRUE, 0)
       /\ cmd = NoCommand
       /\ held = 0
       /\ pendingRefresh = 0
       /\ fieldValue = <<"x">>

\* the loop with the interaction commands and the replay of a script
NextDrive ==
    \/ UnknownCommand
    \/ Exit
    \/ EnterInteraction
    \/ EnterAuto
    \/ InteractionStep
    \/ AutoNext

SpecDrive == InitDrive /\ [][NextDrive]_vars

\* a step of a command after the resolver has answered
AwaitedStep ==
    \/ ClickStep
    \/ FillClear \/ FillPause \/ FillType
    \/ Hover
    \/ Dispose
    \/ AutoNext

\* every await of a command is answered or rejected: the steps after the
\* resolver are taken when they can be, and the resolver, whose step is the
\* only one a command at "resolve" can take, returns or throws
SpecDriveLive ==
    /\ SpecDrive
    /\ WF_vars(AwaitedStep)
    /\ []<>(cmd.pc # "resolve")

\* names the operator may answer to the question of 'a s'
RecordingNames == {"", "m", "n"}

\* a variant in which 'a s' starts over when a recording is active
RecordStartAnew ==
    /\ Accepting(loop)
    /\ cmd' = [NoCommand EXCEPT !.op = "record", !.arg = <<"s">>]
    /\ \E name \in RecordingNames :
         loop' = IF name = ""
                 THEN loop
                 ELSE [loop EXCEPT !.recordingState =
                                      [NoRecording EXCEPT !.active = TRUE, !.name = name]]
    /\ UNCHANGED <<currentPage, engineVars, openTabs, created, pages, held,
                   pendingRefresh, fieldValue>>

\* a s: a recording starts when none is active and the name asked for is
\* not empty; 'a' is one of skipCommands
RecordStart ==
    /\ Accepting(loop)
    /\ cmd' = [NoCommand EXCEPT !.op = "record", !.arg = <<"s">>]
    /\ \E name \in RecordingNames :
         loop' = IF loop.recordingState.active \/ name = ""
                 THEN loop
                 ELSE [loop EXCEPT !.recordingState =
                                      [NoRecording EXCEPT !.active = TRUE, !.name = name]]
    /\ UNCHANGED <<currentPage, engineVars, openTabs, created, pages, held,
                   pendingRefresh, fieldValue>>

\* a e: the recording is saved by browser.addAutoScript, or cancelled when
\* it has no command, and recordingState is null again
RecordEnd ==
    /\ Accepting(loop)
    /\ cmd' = [NoCommand EXCEPT !.op = "record", !.arg = <<"e">>]
    /\ loop' = [loop EXCEPT !.recordingState = NoRecording]
    /\ UNCHANGED <<currentPage, engineVars, openTabs, created, pages, held,
                   pendingRefresh, fieldValue>>

\* c uid_3, t uid_2 <text>, hover uid_3
EnterRecordable ==
    \E u \in {<<"click", 3>>, <<"fill", 2>>, <<"hover", 3>>} :
        Enter(Begin(u[1], "resolve", "uid", u[2]))

\* the loop with recordings, the interaction commands and the replay of a
\* script
NextRecord ==
    \/ RecordStart
    \/ RecordEnd
    \/ EnterRecordable
    \/ UnknownCommand
    \/ EnterAuto
    \/ InteractionStep
    \/ AutoNext

SpecRecord == InitDrive /\ [][NextRecord]_vars

\* the loop with the tab commands, clicks on the link, tabs that go on their
\* own and the targetdestroyed callback
NextTabs ==
    \/ EnterOpen \/ EnterClose \/ EnterSwitch \/ EnterNavigate
    \/ EnterClickLink
    \/ TabStep
    \/ Resolve \/ ClickStep \/ Dispose
    \/ TabDestroyed
    \/ HandlerRefresh

SpecTabs == InitDrive /\ [][NextTabs]_vars

----------------------------------------------------------------------------
(* Properties of the snapshot and its uids *)

RECURSIVE IsAncestorWithin(_, _, _)
\* record a is reached from record v by at most k parent links
IsAncestorWithin(a, v, k) ==
    LET p == snapshotIdToNode[v].parentUid
    IN /\ k > 0
       /\ p \in DOMAIN snapshotIdToNode
       /\ (p = a \/ IsAncestorWithin(a, p, k - 1))

IsAncestor(a, v) == IsAncestorWithin(a, v, Cardinality(DOMAIN snapshotIdToNode))

\* C1: in every snapshot built (nested tree or flat list), the uid number of a
\* node is smaller than the uid number of each of its descendants, and every
\* node but the root has its parent in the index.
C1_PreOrderNumbering ==
    /\ \A v \in DOMAIN snapshotIdToNode :
         LET p == snapshotIdToNode[v].parentUid
         IN p # 0 => p \in DOMAIN snapshotIdToNode /\ p < v
    /\ \A a \in DOMAIN snapshotIdToNode, v \in DOMAIN snapshotIdToNode :
         IsAncestor(a, v) => a < v

\* a snapshot of the chain 1 -> 3 -> 2: the driver's node 3 is uid_2, its child
\* node 2 is uid_3, and uid_1 is an ancestor of uid_3
C1_Witness ==
    /\ result.op = "takeSnapshot" /\ result.status = "ok" /\ result.via = "nested"
    /\ DOMAIN snapshotIdToNode = 1..3
    /\ snapshotIdToNode[2].axNode = 3 /\ snapshotIdToNode[3].axNode = 2
    /\ snapshotIdToNode[3].parentUid = 2
    /\ IsAncestor(1, 3)

\* C2: after a takeSnapshot that built a tree, whatever the index and the
\* counter held before, the keys of the index are exactly uid_1 .. uid_(nextUid-1),
\* each key holds the record of that uid, there is one line per record, and on
\* the nested path there is one record per node of the tree of N nodes
\* (nextUid = N + 1).
C2_ResetThenNumbered ==
    (result.op = "takeSnapshot" /\ result.status = "ok") =>
        /\ DOMAIN snapshotIdToNode = 1..(nextUid - 1)
        /\ \A u \in DOMAIN snapshotIdToNode : snapshotIdToNode[u].uid = u
        /\ lastSnapshot.kind = "text"
        /\ Len(lastSnapshot.lines) = nextUid - 1
        /\ \A k \in 1..Len(lastSnapshot.lines) : lastSnapshot.lines[k].uid = k
        /\ result.via = "nested" =>
             /\ nextUid = result.n + 1
             /\ {snapshotIdToNode[u].axNode : u \in DOMAIN snapshotIdToNode} = 1..result.n

\* a snapshot of a single node taken when an earlier epoch had issued three uids
C2_Witness ==
    /\ result.op = "takeSnapshot" /\ result.status = "ok" /\ result.via = "nested"
    /\ result.n = 1
    /\ issuedBefore.uid = 1..3
    /\ DOMAIN snapshotIdToNode = {1}
    /\ nextUid = 2

\* C3 as claimed: a resolve of a uid issued by a superseded snapshot epoch
\* fails with NotFound.
C3_PriorEpochUidNotFound ==
    (result.op = "resolve" /\ result.ns = "uid" /\ result.n \in issuedBefore.uid) =>
        result.status = "NotFound"

\* C3 as amended: a resolve of a uid that the current snapshot epoch did not
\* issue fails with NotFound and yields no handle; a uid of an earlier epoch
\* is refused only if the current epoch did not issue the same uid again.
C3_OnlyCurrentEpochResolves ==
    (result.op = "resolve" /\ result.ns = "uid" /\ result.n \notin issuedNow.uid) =>
        (result.status = "NotFound" /\ result.handle = 0)

\* a uid of an earlier epoch, beyond the uids of the current (non-empty) epoch,
\* was resolved and refused
C3_Witness ==
    /\ result.op = "resolve" /\ result.ns = "uid"
    /\ result.n \in issuedBefore.uid
    /\ issuedNow.uid # {}
    /\ result.n \notin issuedNow.uid
    /\ snapshotIdToNode # EmptyIndex
    /\ result.status = "NotFound"

\* C4 as claimed: no uid issued by the current epoch of a namespace was issued
\* by an earlier epoch of that namespace.
C4_UidNeverReused ==
    /\ issuedNow.uid \cap issuedBefore.uid = {}
    /\ issuedNow.ocr \cap issuedBefore.ocr = {}

\* C4 as amended: within one epoch and namespace a uid is issued once (the
\* lines of a snapshot carry pairwise different uids, and so do the records of
\* a scan), and every epoch numbers from 1.
C4_UniqueWithinEpoch ==
    /\ \A i \in 1..Len(lastSnapshot.lines), j \in 1..Len(lastSnapshot.lines) :
         i # j => lastSnapshot.lines[i].uid # lastSnapshot.lines[j].uid
    /\ \A i \in 1..Len(OcrList), j \in 1..Len(OcrList) :
         i # j => OcrList[i].uid # OcrList[j].uid
    /\ issuedNow.uid = 1..Cardinality(issuedNow.uid)
    /\ issuedNow.ocr = 1..Cardinality(issuedNow.ocr)
    /\ Cardinality(issuedNow.uid) \in {0, Len(lastSnapshot.lines)}

\* a snapshot of three nodes and a scan of three records, each reusing uids of
\* an earlier epoch
C4_Witness ==
    /\ Len(lastSnapshot.lines) = 3
    /\ issuedNow.uid = 1..3
    /\ issuedBefore.uid \cap issuedNow.uid # {}
    /\ result.op = "scan" /\ result.n = 3
    /\ issuedNow.ocr = 1..3
    /\ issuedBefore.ocr \cap issuedNow.ocr # {}

\* C5 as claimed: a resolve (getElementByUid), for a uid of either namespace,
\* leaves the index and the uid counter as they were.
C5_ResolveKeepsIndex ==
    [][result'.op = "resolve" =>
          (snapshotIdToNode' = snapshotIdToNode /\ nextUid' = nextUid)]_vars

\* C6 as claimed: a visual scan (getElementsForOCR) leaves every uid_ record
\* of the index in place.
C6_ScanKeepsUidRecords ==
    [][result'.op = "scan" =>
          \A u \in DOMAIN snapshotIdToNode :
              /\ u \in DOMAIN snapshotIdToNode'
              /\ snapshotIdToNode'[u] = snapshotIdToNode[u]]_vars

----------------------------------------------------------------------------
(* Properties of the scored heuristic match *)

\* the page and the record of the last resolve, and the scores of the page
LivePage == PageOf(dom)

ResolvedRecord == snapshotIdToNode[result.n]

ByHeuristic ==
    /\ result.op = "resolve" /\ result.ns = "uid" /\ result.via = "heuristic"
    /\ result.n \in DOMAIN snapshotIdToNode

ScoreOf(i) == Score(LivePage, i, ResolvedRecord)

\* the three terms as the claim states them
RoleAgrees(el, role) ==
    \/ ElRole(el) = role
    \/ role = "link" /\ el.tag = "A"
    \/ role = "button" /\ (el.tag = "BUTTON" \/ el.roleAttr = "button")
    \/ role = "textbox" /\ el.tag \in {"INPUT", "TEXTAREA"}

TextTerm(text, name) ==
    CASE text = Empty \/ name = Empty -> 0
      [] text = name -> 20
      [] text # name /\ Includes(text, name) -> 15
      [] ~Includes(text, name) /\ Includes(name, text) -> 10
      [] OTHER -> 0

Displaced(el, bounds, by) ==
    bounds.has /\ Abs(el.left - bounds.x) = by /\ Abs(el.top - bounds.y) = by

\* C7: after a heuristic resolve, the score of every element of the page is
\* role term + text term + geometry term: 10 or 0 for the role (directly or
\* through the link/button/textbox aliases), 20 / 15 / 10 / 0 for the text,
\* 30 or 0 for the geometry (0 without recorded bounds); an element agreeing on
\* role, exact name and geometry scores 60; and a sole candidate below <html>
\* that agrees on role and name but is displaced by 50 pixels scores 30 and is
\* the element resolved.
C7_ScoreIsSumOfTerms ==
    ByHeuristic =>
        /\ \A i \in 1..Len(dom) :
             LET el == LivePage[i]
                 roleTerm == IF RoleAgrees(el, ResolvedRecord.role) THEN 10 ELSE 0
                 textTerm == TextTerm(ElText(LivePage, i), ResolvedRecord.name)
                 geomTerm == ScoreOf(i) - roleTerm - textTerm
             IN /\ geomTerm \in {0, 30}
                /\ ~ResolvedRecord.bounds.has => geomTerm = 0
                /\ (roleTerm = 10 /\ textTerm = 20 /\ geomTerm = 30) => ScoreOf(i) = 60
        /\ (/\ Len(dom) = 2
            /\ RoleAgrees(LivePage[2], ResolvedRecord.role)
            /\ ElText(LivePage, 2) = ResolvedRecord.name /\ ResolvedRecord.name # Empty
            /\ Displaced(LivePage[2], ResolvedRecord.bounds, 50))
           => (ScoreOf(2) = 30 /\ result.status = "ok" /\ result.handle = 2)

\* the displaced sole candidate was resolved with score 30
C7_Witness ==
    /\ ByHeuristic
    /\ Len(dom) = 2
    /\ RoleAgrees(LivePage[2], ResolvedRecord.role)
    /\ ElText(LivePage, 2) = ResolvedRecord.name /\ ResolvedRecord.name # Empty
    /\ Displaced(LivePage[2], ResolvedRecord.bounds, 50)
    /\ ScoreOf(2) = 30
    /\ result.status = "ok" /\ result.handle = 2

MaxScore == MaxOf({ScoreOf(i) : i \in 1..Len(dom)})

\* C8: the heuristic resolves the element of the highest score, and among
\* several elements of that score the first one in document order.
C8_HighestScoreFirstInOrder ==
    ByHeuristic =>
        /\ result.status = "ok" =>
             /\ result.handle \in 1..Len(dom)
             /\ ScoreOf(result.handle) = MaxScore
             /\ \A j \in 1..(result.handle - 1) : ScoreOf(j) < MaxScore
        /\ MaxScore > 0 => result.status = "ok"

\* two elements below <html> share the highest score and the first was resolved
C8_Witness ==
    /\ ByHeuristic
    /\ result.status = "ok"
    /\ \E j \in 1..Len(dom) :
         j > result.handle /\ ScoreOf(j) = MaxScore /\ result.handle > 1
    /\ ScoreOf(result.handle) = MaxScore

\* C9: when the direct handle is absent or failed and no element of the page
\* scores above 0, the resolve of a uid_ uid fails with NotFound and yields no
\* handle.
C9_NoScoreNotFound ==
    (ByHeuristic /\ \A i \in 1..Len(dom) : ScoreOf(i) = 0) =>
        (result.status = "NotFound" /\ result.handle = 0)

\* a record with a direct-handle capability that failed, on a page of three
\* elements none of which scores
C9_Witness ==
    /\ ByHeuristic
    /\ ResolvedRecord.hasHandle
    /\ Len(dom) = 3
    /\ \A i \in 1..Len(dom) : ScoreOf(i) = 0
    /\ result.status = "NotFound"

----------------------------------------------------------------------------
(* Properties of the interaction driver, the tabs and the command loop *)

\* C11 as claimed: every resolve either yields a live element (a non-null
\* handle) or fails with NotFound; it never hands over an absent handle.
C11_ResolveHandleOrNotFound ==
    result.op = "resolve" =>
        \/ result.status = "ok" /\ result.handle # 0
        \/ result.status = "NotFound" /\ result.handle = 0

\* the command has completed: the prompt is pending or a script goes on
Completed == cmd.pc \in {"done", "next"}

\* C12: every handle click, fill or hover obtained from the resolver is
\* disposed when the command completes (return, failure of the action, failure
\* of an intermediate step), and a command holds at most one handle.
C12_HandlesReleased ==
    /\ Completed => held = 0
    /\ held \in {0, 1}
    /\ held = 1 => (cmd.op \in {"click", "fill", "hover"} /\ cmd.handle # 0)

\* a click whose three strategies failed has completed and holds no handle
C12_Witness ==
    /\ cmd.op = "click" /\ cmd.pc = "done" /\ cmd.status = "DriverFailure"
    /\ held = 0
    /\ result.op = "resolve" /\ result.status = "ok"

\* the click strategies a command has attempted, in the order of the attempts
Strategies ==
    SelectSeq(cmd.trace, LAMBDA e : e \in {"script", "native", "mouse", "nobox"})

IsPrefix(a, b) == Len(a) <= Len(b) /\ SubSeq(b, 1, Len(a)) = a

ClickSucceeded ==
    /\ cmd.op = "click"
    /\ cmd.pc \in {"after", "refresh"} \/ (cmd.pc = "dispose" /\ cmd.status = "ok")

\* C13 amended: click attempts the script click, then the native click, then
\* the pointer click at the centre of the box; a strategy is attempted only
\* after the ones before it have failed, none is attempted after a success, and
\* once a strategy has been attempted click raises an error only when the
\* script click and the native click have failed and the pointer click has
\* failed or the element has no box.
C13_ClickStrategyOrder ==
    cmd.op = "click" =>
        /\ \/ IsPrefix(Strategies, <<"script", "native", "mouse">>)
           \/ Strategies = <<"script", "native", "nobox">>
        /\ cmd.pc = "native" => Strategies = <<"script">>
        /\ cmd.pc \in {"box", "mouse"} => Strategies = <<"script", "native">>
        /\ ClickSucceeded =>
              /\ Strategies # <<>>
              /\ cmd.trace[Len(cmd.trace)] \in {"script", "native", "mouse"}
        /\ (cmd.pc = "dispose" /\ cmd.status = "DriverFailure" /\ Strategies # <<>>) =>
              Strategies \in {<<"script", "native", "mouse">>, <<"script", "native", "nobox">>}

\* C13 as claimed: click raises an error to its caller only when all three
\* strategies have failed (the pointer click fails also when there is no box).
C13_ErrorOnlyWhenAllFailed ==
    (cmd.op = "click" /\ cmd.pc = "dispose" /\ cmd.status # "ok") =>
        Strategies \in {<<"script", "native", "mouse">>, <<"script", "native", "nobox">>}

\* a click whose script click and native click failed and whose pointer click
\* succeeded
C13_Witness ==
    /\ ClickSucceeded
    /\ Strategies = <<"script", "native", "mouse">>

\* the calls with which a command acts on the element
Primitives == {"script", "native", "mouse", "clear", "type", "hover"}

\* C14 as claimed: whenever click, fill or hover has acted on the element, it
\* has scrolled the element into view and let the settle delay elapse before.
C14_ScrollAndSettleFirst ==
    \A k \in 1..Len(cmd.trace) :
        cmd.trace[k] \in Primitives =>
            \E i \in 1..(k - 1), j \in 1..(k - 1) :
                i < j /\ cmd.trace[i] = "scroll" /\ cmd.trace[j] = "settle"

\* C15 as claimed: when a click on a link with target _blank has succeeded and
\* more than one page is listed, the page the click opened is current if it is
\* still open, and the current page is the one it was or the one the click
\* opened.
C15_CurrentIsTabOfClick ==
    (/\ cmd.op = "click" /\ cmd.pc = "dispose" /\ cmd.status = "ok"
     /\ cmd.isLink /\ cmd.newTab
     /\ Len(pages) > 1) =>
        /\ (cmd.opened # 0 /\ IsOpen(cmd.opened)) => currentPage = cmd.opened
        /\ currentPage \in {cmd.curBefore, cmd.opened}

\* C16: a fill of a text field that held a value empties the value before it
\* types, so that the value is exactly the text when fill has typed.
C16_FillReplacesValue ==
    (cmd.op = "fill" /\ cmd.handle # 0) =>
        /\ (cmd.pc \in {"pause", "type"} /\ IsTextField(cmd.handle)) =>
              fieldValue = Empty
        /\ (cmd.pc = "dispose" /\ cmd.status = "ok" /\ IsTextField(cmd.handle)) =>
              fieldValue = FillText

\* the field held a value other than the text, and holds the text after fill
C16_Witness ==
    /\ cmd.op = "fill" /\ cmd.pc = "dispose" /\ cmd.status = "ok"
    /\ IsTextField(cmd.handle)
    /\ cmd.had # Empty /\ cmd.had # FillText
    /\ fieldValue = FillText

\* C17 as claimed: when no command and no callback is in progress and a tab is
\* open, the current page is one of the open tabs.
C17_CurrentPageIsOpen ==
    (cmd.pc = "done" /\ cmd.op # "exit" /\ pendingRefresh = 0 /\ Len(openTabs) >= 1) =>
        IsOpen(currentPage)

\* C18: commands run one at a time; the prompt is pending only when no command
\* is in flight, also while a script is replayed.
C18_OneCommandAtATime ==
    /\ loop.running \in {0, 1}
    /\ loop.prompt => (loop.running = 0 /\ cmd.pc = "done")
    /\ loop.running = 1 <=> ~Completed

\* the second command of a replayed script is in execution, alone
C18_Witness ==
    /\ cmd.replay /\ cmd.op = "fill" /\ cmd.pc = "type"
    /\ cmd.script = <<>>
    /\ loop.running = 1 /\ ~loop.prompt

\* C19 as claimed: while a command is suspended, the targetdestroyed callback
\* changes neither the page list nor the current page nor the index.
C19_NoMutationWhileSuspended ==
    [][(~Completed /\ pendingRefresh' < pendingRefresh) =>
          /\ pages' = pages
          /\ currentPage' = currentPage
          /\ snapshotIdToNode' = snapshotIdToNode]_vars

\* C20: a command that fails is reported (its status is kept) and the loop goes
\* on: after every command other than exit the prompt eventually returns.
C20_LoopGoesOn ==
    /\ [](loop.prompt => cmd.status # "running")
    /\ (~loop.prompt /\ cmd.op \notin {"none", "exit"}) ~> loop.prompt

\* the prompt is pending after a click that failed with NotFound
C20_Witness ==
    /\ loop.prompt
    /\ cmd.op = "click" /\ cmd.status = "NotFound"

----------------------------------------------------------------------------
(* Properties of the visual scan *)

\* the row of a vertical position: the multiple of ten nearest to it, the
\* upper one when two are equally near
NearestRow(y) == CHOOSE k \in 0..(y + 1) : 10 * k - 5 <= y /\ y < 10 * k + 5

\* C21: in the list a scan returns every element of a lower row precedes every
\* element of a higher row whatever their horizontal positions, and within a
\* row the elements are in ascending horizontal position.
C21_RowsThenColumns ==
    result.op = "scan" =>
        \A i \in 1..Len(result.list), j \in 1..Len(result.list) :
            i < j =>
                /\ NearestRow(result.list[i].y) <= NearestRow(result.list[j].y)
                /\ NearestRow(result.list[i].y) = NearestRow(result.list[j].y) =>
                      result.list[i].x <= result.list[j].x

\* a scan listed an element of a lower row before one further to the left
C21_Witness ==
    /\ result.op = "scan" /\ Len(result.list) = 2
    /\ NearestRow(result.list[1].y) < NearestRow(result.list[2].y)
    /\ result.list[1].x > result.list[2].x
    /\ result.list[1].y + 1 = result.list[2].y

\* the element of the scanned page a record of the list was derived from
ScannedElement(k) == PageOf(dom)[result.list[k].el]

\* C22: the list of a scan holds no element without width or height, none
\* with display none or visibility hidden, none whose text is empty, longer
\* than 50 characters or digits only; and every selected element that is none
\* of these is in the list.
C22_OnlyVisibleLabelled ==
    result.op = "scan" =>
        /\ \A k \in 1..Len(result.list) :
              /\ ScannedElement(k).width # 0 /\ ScannedElement(k).height # 0
              /\ ScannedElement(k).display # "none"
              /\ ScannedElement(k).visibility # "hidden"
              /\ result.list[k].text = DerivedText(PageOf(dom), result.list[k].el)
              /\ Len(result.list[k].text) \in 1..50
              /\ \E c \in 1..Len(result.list[k].text) : result.list[k].text[c] \notin Digits
        /\ \A i \in 1..Len(dom) :
              LET el == PageOf(dom)[i]
                  text == DerivedText(PageOf(dom), i)
              IN (/\ Selected(el)
                  /\ el.width # 0 /\ el.height # 0
                  /\ el.display # "none" /\ el.visibility # "hidden"
                  /\ Len(text) \in 1..50
                  /\ \E c \in 1..Len(text) : text[c] \notin Digits) =>
                      \E k \in 1..Len(result.list) : result.list[k].el = i

\* a scan of a page with a hidden element and a text of 50 characters
C22_Witness ==
    /\ result.op = "scan" /\ Len(dom) = 3
    /\ \E i \in 1..Len(dom) : PageOf(dom)[i].visibility = "hidden"
    /\ Len(result.list) = 1 /\ Len(result.list[1].text) = 50

\* C23 as claimed: the record at position i of the list of a scan carries the
\* uid ocr_i.
C23_PositionIsUid ==
    result.op = "scan" =>
        \A i \in 1..Len(result.list) : result.list[i].uid = i

\* C24 as claimed: when the page is as it was at the scan, resolving the uid a
\* record of the scan carries yields the element the record was derived from.
C24_ResolvesScannedElement ==
    [][(/\ result.op = "scan"
        /\ result'.op = "resolve" /\ result'.ns = "ocr"
        /\ dom' = dom) =>
          \A k \in 1..Len(result.list) :
              result.list[k].uid = result'.n =>
                  (result'.status = "ok" /\ result'.handle = result.list[k].el)]_vars

----------------------------------------------------------------------------
(* Properties of takeSnapshot on degenerate and flat input *)

\* C25 as claimed: a takeSnapshot that found no root (nested retrieval) or no
\* node (flat retrieval) raises no error, leaves the index empty and makes the
\* marker the current snapshot.
C25_DegenerateGivesSentinel ==
    (result.op = "takeSnapshot" /\ result.status = "sentinel") =>
        /\ snapshotIdToNode = EmptyIndex
        /\ lastSnapshot = Sentinel

\* the nodes of the driver's list the index has a record of
EmittedNodes == {snapshotIdToNode[u].backendNodeId.v : u \in DOMAIN snapshotIdToNode}

\* C26 as claimed: a snapshot built from the flat list, starting at the node
\* with the role RootWebArea, has a record of every node that node reaches
\* through child ids which resolve (in the trees of the model: every node).
C26_FlatReachableEmitted ==
    (/\ result.op = "takeSnapshot" /\ result.status = "ok" /\ result.via = "cdp"
     /\ snapshotIdToNode[1].role = "RootWebArea") =>
        EmittedNodes = 1..result.n

----------------------------------------------------------------------------
(* Properties of the snapshot across tab operations and recordings *)

TabOps == {"openPage", "closePage", "switchPage", "navigate"}

\* C27: no step of switchPage, openPage, navigate or closePage changes the
\* index, the uid counter or the last snapshot text.
C27_TabOpsKeepSnapshot ==
    [][(cmd' # cmd /\ cmd'.op \in TabOps) =>
          /\ snapshotIdToNode' = snapshotIdToNode
          /\ nextUid' = nextUid
          /\ lastSnapshot' = lastSnapshot]_vars

\* navigate has completed on another document and the snapshot is as it was
C27_Witness ==
    /\ cmd.op = "navigate" /\ cmd.pc = "done" /\ cmd.status = "ok"
    /\ dom # PageB
    /\ snapshotIdToNode # EmptyIndex /\ nextUid = 4
    /\ lastSnapshot.kind = "text"

\* C28 as claimed: once the page the snapshot was captured against is closed,
\* a resolve of a uid of that snapshot fails with NotFound and yields no
\* element of another page (here: the resolves that search the current page
\* when that is an open page other than the one of the snapshot).
C28_ClosedPageUidNotFound ==
    [][(/\ cmd.pc = "resolve" /\ cmd' # cmd
        /\ cmd.ns = "uid"
        /\ ~IsOpen(issuedNow.tab)
        /\ IsOpen(currentPage) /\ currentPage # issuedNow.tab
        /\ result'.via = "heuristic") =>
          result'.status = "NotFound"]_vars

\* the lines of a recording that the operator entered, in the order recorded
EnteredLines(rec) == SelectSeq(rec.commands, LAMBDA e : ~e.replayed)

\* C29: while a recording is active, the lines the operator entered that are
\* neither view nor automation commands are in the recording, each once and
\* in the order entered, the fill commands t <uid> <text> among them
C29_RecordsEveryCommand ==
    loop.recordingState.active =>
        EnteredLines(loop.recordingState) = loop.recordingState.typed

\* C30: no line of a recording was entered by the replay of a saved script
C30_ReplayNotRecorded ==
    \A i \in 1..Len(loop.recordingState.commands) :
        ~loop.recordingState.commands[i].replayed

----------------------------------------------------------------------------
(* Properties of the resolver's strategies *)

\* the record's node offers elementHandle()
HasCapability(rec) == rec.axNode # 0 /\ rec.hasHandle

\* the step ran the scored search of the page
SearchRan == heuristicLog' \notin {heuristicLog, NoLog}

\* C31: getElementByUid tries the strategies in order and the first success
\* wins: for uid_<n> an element of the record's own node is returned without
\* the scored search, which answers only when the node has no elementHandle()
\* or it failed; for ocr_<n> the answer comes from the locator alone, never
\* from the node or the scored search
C31_StrategiesInOrder ==
    [][(result' # result /\ result'.op = "resolve") =>
          /\ result'.ns = "ocr" =>
                result'.via \in {"xpath", "none"} /\ ~SearchRan
          /\ (result'.ns = "uid" /\ result'.via = "direct") =>
                /\ result'.n \in DOMAIN snapshotIdToNode
                /\ HasCapability(snapshotIdToNode[result'.n])
                /\ result'.status = "ok"
                /\ ~SearchRan
          /\ (result'.ns = "uid" /\ result'.n \in DOMAIN snapshotIdToNode
                /\ ~HasCapability(snapshotIdToNode[result'.n])) =>
                result'.via = "heuristic"
          /\ result'.via = "heuristic" =>
                result'.ns = "uid" /\ result'.n \in DOMAIN snapshotIdToNode]_vars

\* the node of the record offered elementHandle(), it failed, and the scored
\* search found the element
C31_Witness ==
    /\ result.op = "resolve" /\ result.ns = "uid" /\ result.via = "heuristic"
    /\ result.status = "ok"
    /\ result.n \in DOMAIN snapshotIdToNode
    /\ HasCapability(snapshotIdToNode[result.n])

\* the geometry term the scored search gave element i of the page
GeomTermOf(i) == GeomScore(LivePage[i], ResolvedRecord.bounds)

\* C32: after a heuristic resolve, an element has the geometry term of 30
\* exactly when the record has a bounding box and the element's top-left
\* corner is at most 10 pixels from the recorded one in each axis, an offset
\* of exactly 10 included
C32_GeometryWithinTenInclusive ==
    ByHeuristic =>
        \A i \in 1..Len(dom) :
            GeomTermOf(i) = 30 <=>
                /\ ResolvedRecord.bounds.has
                /\ Abs(LivePage[i].left - ResolvedRecord.bounds.x) <= 10
                /\ Abs(LivePage[i].top - ResolvedRecord.bounds.y) <= 10

\* element i of the page is where the record's bounding box was: xMatch && yMatch
GeomAgrees(i) ==
    /\ ResolvedRecord.bounds.has
    /\ Abs(LivePage[i].left - ResolvedRecord.bounds.x) < BoxEpsilon
    /\ Abs(LivePage[i].top - ResolvedRecord.bounds.y) < BoxEpsilon

\* C33 as stated: whenever some element of the page has geometry agreement
\* with the record, the heuristic resolves an element that has it
C33_GeometryAlwaysWins ==
    (ByHeuristic /\ \E i \in 1..Len(dom) : GeomAgrees(i)) =>
        (result.status = "ok" /\ GeomAgrees(result.handle))

\* C33: whenever some element of the page has geometry agreement with the
\* record, the heuristic resolves an element; it has geometry agreement, or
\* it scores 30 by its role and exact text, comes before every element with
\* geometry agreement in document order, and each of those scores 30 as well,
\* agreeing with the record on neither role nor text
C33_GeometryWinsButForTies ==
    (ByHeuristic /\ \E i \in 1..Len(dom) : GeomAgrees(i)) =>
        /\ result.status = "ok"
        /\ \/ GeomAgrees(result.handle)
           \/ /\ ScoreOf(result.handle) = 30
              /\ RoleAgrees(LivePage[result.handle], ResolvedRecord.role)
              /\ ElText(LivePage, result.handle) = ResolvedRecord.name
              /\ \A j \in 1..Len(dom) :
                   GeomAgrees(j) =>
                       /\ j > result.handle
                       /\ ScoreOf(j) = 30
                       /\ ~RoleAgrees(LivePage[j], ResolvedRecord.role)
                       /\ TextTerm(ElText(LivePage, j), ResolvedRecord.name) = 0

\* an element agreeing on role and exact text only comes first, and the
\* element resolved is a later one at the recorded position
C33_Witness ==
    /\ ByHeuristic /\ result.status = "ok"
    /\ GeomAgrees(result.handle)
    /\ \E j \in 1..(result.handle - 1) :
         /\ ~GeomAgrees(j)
         /\ RoleAgrees(LivePage[j], ResolvedRecord.role)
         /\ ElText(LivePage, j) = ResolvedRecord.name /\ ResolvedRecord.name # Empty

----------------------------------------------------------------------------
(* Properties of the tab commands *)

\* C34: closePage, with no id or the id of an open page, never closes the
\* last tab: with exactly one tab open it takes the branch that resets that
\* tab to about:blank, and the tab is its target and the current page; with
\* more tabs open, after the current tab was closed the current page is the
\* first tab that remains
C34_LastTabKeptAndCurrent ==
    [][/\ (/\ cmd.op = "closePage" /\ cmd.pc = "refresh" /\ cmd' # cmd
           /\ Len(openTabs) = 1 /\ cmd.n \in {0, 1}) =>
              /\ cmd'.pc = "reset"
              /\ cmd'.page = openTabs[1]
              /\ currentPage' = openTabs[1]
       /\ (/\ cmd.op = "closePage" /\ cmd.pc = "refreshed" /\ cmd' # cmd
           /\ cmd.page = currentPage /\ Len(openTabs) > 0) =>
              currentPage' = openTabs[1]]_vars

----------------------------------------------------------------------------
(* Properties of the snapshot text and the index *)

\* the uids uid_<n> that appear in the lines of lastSnapshot
DisplayedUids == {lastSnapshot.lines[k].uid : k \in 1..Len(lastSnapshot.lines)}

\* C35: every uid_<n> of the most recent snapshot text has a record in the
\* index, whatever snapshots, scans and resolves came before
C35_DisplayedUidsIndexed ==
    \A u \in DisplayedUids : u \in DOMAIN snapshotIdToNode

\* C36: a takeSnapshot whose retrieval fails on the nested path and on the
\* flat path leaves the index and the snapshot text as they were
C36_FailedSnapshotKeepsPrevious ==
    [][(/\ result' # result
        /\ result'.op = "takeSnapshot" /\ result'.via = "cdp"
        /\ result'.status \in {"throw", "errorText"}) =>
          /\ snapshotIdToNode' = snapshotIdToNode
          /\ lastSnapshot' = lastSnapshot]_vars

\* exactly one entry of this.pages is selected, and it is the current page's
SelectedIsCurrent ==
    /\ Cardinality({i \in 1..Len(pages) : pages[i].selected}) = 1
    /\ \A i \in 1..Len(pages) : pages[i].selected <=> pages[i].page = currentPage

\* C37: when openPage, closePage, switchPage or a click has completed without
\* error and the current page is an open tab, exactly one entry of the page
\* list has selected = true, the entry of the current page
C37_OneSelectedTheCurrent ==
    [][(/\ cmd.pc # "done" /\ cmd'.pc = "done"
        /\ cmd'.op \in {"openPage", "closePage", "switchPage", "click"}
        /\ cmd'.status = "ok"
        /\ IsOpen(currentPage)') =>
          SelectedIsCurrent']_vars

\* the id typed after q is the id of no entry of the page list of tabs
MatchesNoPage(arg, tabs) ==
    arg # <<>> /\ \A i \in 1..Len(tabs) : ParseInt(arg) # NumId(i)

\* C38: closePage called with an id typed at the prompt that is the id of no
\* open page, 0 and a word included, ends with the error that the page was
\* not found, goes on to neither the reset nor the close of a tab, and leaves
\* the current page as it is
C38_UnknownIdFails ==
    [][(/\ cmd.op = "closePage" /\ cmd.pc = "refresh" /\ cmd' # cmd
        /\ Len(openTabs) > 0
        /\ MatchesNoPage(cmd.arg, openTabs)) =>
          /\ cmd'.pc = "done" /\ cmd'.status = "NotFound"
          /\ currentPage' = currentPage]_vars

\* C39: when openPage has failed at its goto, the tab its newPage() created
\* is not among the open tabs
C39_FailedOpenLeavesNoTab ==
    [][(/\ cmd.op = "openPage" /\ cmd.pc = "goto"
        /\ cmd'.pc = "done" /\ cmd'.status = "DriverFailure") =>
          \A i \in 1..Len(openTabs') : openTabs'[i] # cmd.opened]_vars

----------------------------------------------------------------------------
(* Properties of the recording commands *)

====
